---------------------------- MODULE Spec2Model ----------------------------
(***************************************************************************)
(* Model of src/serialization.rs: the Encoder and Decoder that marshal     *)
(* between TOML values and Rust data driven through the serialize          *)
(* visitor protocol.                                                       *)
(*                                                                         *)
(* Representation.                                                         *)
(*   Option<T>      None is <<>>, Some(x) is <<x>>.                        *)
(*   String / &str  a sequence of one-character strings ("a_b" is          *)
(*                  <<"a","_","b">>), so that hyphenate and the path       *)
(*                  format act on characters.  &'static str type names     *)
(*                  are TLA+ strings.                                      *)
(*   Value          <<tag, payload>> with tag the variant name.            *)
(*   HashMap        a Table is <<"Table", entries, hasher>>: the entries   *)
(*                  as a function of the keys, and the order its own       *)
(*                  hasher lays keys in, a sequence of keys.  A HashMap    *)
(*                  an adapter hands to the Encoder is the sequence of     *)
(*                  its entries as its iterator yields them.               *)
(*   f64            the integer 2*f (only multiples of 0.5 are drawn).     *)
(*   closures       a closure passed to an operation is a descriptor       *)
(*                  <<kind, ...>>; Call(f, d, x) runs it on decoder d.     *)
(*   Result<T,E>    [ok, v, d]: v is the value or the error, d the         *)
(*                  decoder as the call left it (also on failure).         *)
(***************************************************************************)
EXTENDS Integers, Sequences, FiniteSets, TLC

VARIABLES dec, call, enc, subject, calls

vars == <<dec, call, enc, subject, calls>>

-----------------------------------------------------------------------------
(* Option *)
None == <<>>
Some(x) == <<x>>
is_some(o) == o # <<>>
is_none(o) == o = <<>>
unwrap(o) == o[1]

(* Value constructors *)
(* A table built from entries alone: nothing is said of its hasher, which *)
(* is drawn before the table is first read (Hashings)                      *)
Table(t) == <<"Table", t, <<>>>>
(* The table of entries t with the hasher h: the orders the map lays keys *)
(* in, the first the order in force, the next ones the orders that the    *)
(* insertions of the call under way bring (every call finds them open     *)
(* again: Foreseen)                                                        *)
Hashed(t, h) == <<"Table", t, h>>
Hasher(v) == v[3]
(* the order in force *)
Layout(v) == IF Len(Hasher(v)) = 0 THEN <<>> ELSE Head(Hasher(v))
(* the hasher after table.insert(key, value): where the key lands, and    *)
(* whether the keys held keep their places, is the map's own affair       *)
rehash(h) == IF Len(h) > 1 THEN Tail(h) ELSE h
Array(a) == <<"Array", a>>
String(s) == <<"String", s>>
Integer(i) == <<"Integer", i>>
Float(f) == <<"Float", f>>
Boolean(b) == <<"Boolean", b>>

Tag(v) == v[1]
Val(v) == v[2]

is_tag(o, tag) == is_some(o) /\ Tag(unwrap(o)) = tag

(* Value::type_str *)
type_str(v) ==
    CASE Tag(v) = "String" -> "string"
      [] Tag(v) = "Integer" -> "integer"
      [] Tag(v) = "Float" -> "float"
      [] Tag(v) = "Boolean" -> "boolean"
      [] Tag(v) = "Array" -> "array"
      [] Tag(v) = "Table" -> "table"

(* Value::as_integer *)
as_integer(v) == IF Tag(v) = "Integer" THEN Some(Val(v)) ELSE None

(* HashMap *)
EmptyMap == <<>>
map_len(t) == Cardinality(DOMAIN t)
map_insert(t, k, v) == [x \in (DOMAIN t) \cup {k} |-> IF x = k THEN v ELSE t[x]]
map_remove(t, k) == [x \in (DOMAIN t) \ {k} |-> t[x]]
map_pop(t, k) == IF k \in DOMAIN t THEN Some(t[k]) ELSE None

-----------------------------------------------------------------------------
(* Names drawn by the model *)
ka == <<"a">>
kb == <<"b">>
ka_b == <<"a", "_", "b">>
kahb == <<"a", "-", "b">>

(* Iteration order of a HashMap: unspecified, and each map has a hasher of *)
(* its own, but keys() and values() of one map agree, and a key that is    *)
(* removed leaves the others in their places; an insertion can move them.  *)
(* The hasher of a table gives the order it lays keys in: the keys the     *)
(* table holds are met in that order (a key the order does not list after  *)
(* those it lists).                                                        *)
RECURSIVE Fact(_)
Fact(n) == IF n <= 1 THEN 1 ELSE n * Fact(n - 1)

(* The members of a set, one after the other *)
RECURSIVE SetToSeq(_)
SetToSeq(S) ==
    IF S = {} THEN <<>>
    ELSE LET x == CHOOSE y \in S : TRUE IN <<x>> \o SetToSeq(S \ {x})

(* The arrangement of s numbered p: p in 0..Len(s)!-1 numbers them all *)
RECURSIVE Permute(_, _)
Permute(s, p) ==
    IF Len(s) = 0 THEN <<>>
    ELSE LET i == (p % Len(s)) + 1
         IN  <<s[i]>> \o Permute(SubSeq(s, 1, i - 1) \o SubSeq(s, i + 1, Len(s)),
                                 p \div Len(s))

(* Every order of the members of S *)
Layouts(S) == {Permute(SetToSeq(S), p) : p \in 0..(Fact(Cardinality(S)) - 1)}

(* table.keys(), of the Table v *)
map_keys(v) ==
    LET listed(k) == k \in DOMAIN Val(v)
    IN  SelectSeq(Layout(v), listed)
            \o SetToSeq(DOMAIN Val(v) \ {Layout(v)[i] : i \in DOMAIN Layout(v)})

-----------------------------------------------------------------------------
(* DecodeErrorKind *)
ExpectedField(t) == <<"ExpectedField", t>>
ExpectedType(e, f) == <<"ExpectedType", e, f>>
ExpectedMapKey(i) == <<"ExpectedMapKey", i>>
ExpectedMapElement(i) == <<"ExpectedMapElement", i>>
NoEnumVariants == <<"NoEnumVariants">>
NilTooLong == <<"NilTooLong">>

Ok(v, d) == [ok |-> TRUE, v |-> v, d |-> d]
Err(e, d) == [ok |-> FALSE, v |-> e, d |-> d]
(* The task fails (a call that aborts): no result reaches the caller and the *)
(* decoder is left as the abort found it.                                   *)
Abort(d) == [ok |-> FALSE, v |-> "panic", d |-> d]
aborted(r) == ~r.ok /\ ToString(r.v) = ToString("panic")

(* Decoder::new *)
Decoder_new(toml) == [toml |-> Some(toml), cur_field |-> None]

(* mutant: the field replaces the path instead of extending it *)
sub_decoder_last(d, toml, field) ==
    [toml |-> toml,
     cur_field |->
        IF Len(field) = 0 THEN d.cur_field
        ELSE Some(field)]

sub_decoder(d, toml, field) ==
    [toml |-> toml,
     cur_field |->
        IF Len(field) = 0 THEN d.cur_field
        ELSE IF is_none(d.cur_field) THEN Some(field)
        ELSE Some(unwrap(d.cur_field) \o <<".">> \o field)]

err(d, kind) == [field |-> d.cur_field, kind |-> kind]

(* mutant: a wrong type reported as an absent value *)
mismatch_absent(d, expected, found) == err(d, ExpectedField(expected))

mismatch(d, expected, found) ==
    IF is_some(found) THEN err(d, ExpectedType(expected, type_str(unwrap(found))))
    ELSE err(d, ExpectedField(expected))

take(d) == [d EXCEPT !.toml = None]

(* mutant: the name is looked up as it is *)
hyphenate_same(string) == string

hyphenate(string) ==
    [i \in 1..Len(string) |-> IF string[i] = "_" THEN "-" ELSE string[i]]

-----------------------------------------------------------------------------
(* Scalar reads *)
read_nil(d) ==
    IF is_tag(d.toml, "String") /\ Len(Val(unwrap(d.toml))) = 0
    THEN Ok(<<>>, take(d))
    ELSE IF is_tag(d.toml, "String") THEN Err(err(d, NilTooLong), d)
    ELSE Err(mismatch(d, "string", d.toml), d)

read_i64(d) ==
    IF is_tag(d.toml, "Integer") THEN Ok(Val(unwrap(d.toml)), take(d))
    ELSE Err(mismatch(d, "integer", d.toml), d)

(* i as int: int is the 64-bit machine integer *)
read_int(d) == read_i64(d)

read_bool(d) ==
    IF is_tag(d.toml, "Boolean") THEN Ok(Val(unwrap(d.toml)), take(d))
    ELSE Err(mismatch(d, "bool", d.toml), d)

read_f64(d) ==
    IF is_tag(d.toml, "Float") THEN Ok(Val(unwrap(d.toml)), d)
    ELSE Err(mismatch(d, "float", d.toml), d)

read_char(d) ==
    IF is_tag(d.toml, "String") /\ Len(Val(unwrap(d.toml))) = 1
    THEN Ok(Val(unwrap(d.toml))[1], take(d))
    ELSE Err(mismatch(d, "string", d.toml), d)

(* mutant: the value taken is not put back on a mismatch *)
read_str_takes(d) ==
    IF is_tag(d.toml, "String") THEN Ok(Val(unwrap(d.toml)), take(d))
    ELSE Err(mismatch(d, "string", d.toml), take(d))

read_str(d) ==
    IF is_tag(d.toml, "String") THEN Ok(Val(unwrap(d.toml)), take(d))
    ELSE Err(mismatch(d, "string", d.toml), d)

-----------------------------------------------------------------------------
(* Types of the adapters (the Decodable / Encodable implementations).      *)
TInt == <<"int">>
TF64 == <<"f64">>
TStr == <<"str">>
TBool == <<"bool">>
TChar == <<"char">>
TNil == <<"nil">>
TStruct(fields) == <<"struct", fields>>
TOption(ty) == <<"option", ty>>
TVec(ty) == <<"vec", ty>>
TMap(kty, vty) == <<"map", kty, vty>>
TEnum(tys) == <<"enum", tys>>
(* what a variant without arguments carries: its decode makes no call on   *)
(* the decoder                                                             *)
TUnit == <<"unit">>

(* Closures handed to the operations.                                      *)
FDecode(ty) == <<"decode", ty>>
FStructBody(fields) == <<"struct_body", fields>>
FOptionBody(ty) == <<"option_body", ty>>
FSeqBody(ty) == <<"seq_body", ty>>
FMapBody(kty, vty) == <<"map_body", kty, vty>>
FEnumBody(tys) == <<"enum_body", tys>>
FVariantBody(tys) == <<"variant_body", tys>>
FSkip == <<"skip">>
(* a body that returns the flag it is given *)
FFlag == <<"flag">>
(* a sequence body that reads the first element only *)
FSeqFirst(ty) == <<"seq_first", ty>>

RECURSIVE Call(_, _, _)

-----------------------------------------------------------------------------
(* Compound reads *)
read_enum(d, f) == Call(f, d, 0)

RECURSIVE try_variants(_, _, _, _, _)
try_variants(d, n, f, i, first_error) ==
    IF i >= n
    THEN Err(IF is_some(first_error) THEN unwrap(first_error)
             ELSE err(d, NoEnumVariants), d)
    ELSE LET r == Call(f, sub_decoder(d, d.toml, <<>>), i)
         IN  IF r.ok THEN Ok(r.v, [d EXCEPT !.toml = r.d.toml])
             ELSE IF aborted(r) THEN Abort(d)
             ELSE try_variants(d, n, f, i + 1,
                               IF is_none(first_error) THEN Some(r.v)
                               ELSE first_error)

(* mutant: the candidates are tried last to first *)
RECURSIVE try_variants_down(_, _, _, _)
try_variants_down(d, f, i, first_error) ==
    IF i < 0
    THEN Err(IF is_some(first_error) THEN unwrap(first_error)
             ELSE err(d, NoEnumVariants), d)
    ELSE LET r == Call(f, sub_decoder(d, d.toml, <<>>), i)
         IN  IF r.ok THEN Ok(r.v, [d EXCEPT !.toml = r.d.toml])
             ELSE IF aborted(r) THEN Abort(d)
             ELSE try_variants_down(d, f, i - 1,
                                    IF is_none(first_error) THEN Some(r.v)
                                    ELSE first_error)

read_enum_variant_down(d, names, f) == try_variants_down(d, f, Len(names) - 1, None)

read_enum_variant(d, names, f) == try_variants(d, Len(names), f, 0, None)

read_enum_variant_arg(d, a_idx, f) == Call(f, d, 0)

(* mutant: clears the slot whatever is left, as read_map does *)
read_struct_clears(d, f) ==
    IF is_tag(d.toml, "Table")
    THEN LET r == Call(f, d, 0)
         IN  IF ~r.ok THEN r ELSE Ok(r.v, take(r.d))
    ELSE Err(mismatch(d, "table", d.toml), d)

read_struct(d, f) ==
    IF is_tag(d.toml, "Table")
    THEN LET r == Call(f, d, 0)
         IN  IF ~r.ok THEN r
             ELSE IF is_tag(r.d.toml, "Table") /\ map_len(Val(unwrap(r.d.toml))) = 0
             THEN Ok(r.v, take(r.d))
             ELSE r
    ELSE Err(mismatch(d, "table", d.toml), d)

(* mutant: what the sub-decoder left is dropped *)
read_struct_field_drops(d, f_name, f) ==
    IF ~is_tag(d.toml, "Table") THEN Err(mismatch(d, "table", d.toml), d)
    ELSE LET table == Val(unwrap(d.toml))
             first == map_pop(table, f_name)
             toml == IF is_some(first) THEN first
                     ELSE map_pop(table, hyphenate(f_name))
             popped == IF is_some(first) THEN map_remove(table, f_name)
                       ELSE map_remove(table, hyphenate(f_name))
             self == [d EXCEPT !.toml = Some(Hashed(popped, Hasher(unwrap(d.toml))))]
             r == Call(f, sub_decoder(self, toml, f_name), 0)
         IN  IF ~r.ok THEN Err(r.v, self) ELSE Ok(r.v, self)

read_struct_field(d, f_name, f) ==
    IF ~is_tag(d.toml, "Table") THEN Err(mismatch(d, "table", d.toml), d)
    ELSE LET table == Val(unwrap(d.toml))
             first == map_pop(table, f_name)
             toml == IF is_some(first) THEN first
                     ELSE map_pop(table, hyphenate(f_name))
             popped == IF is_some(first) THEN map_remove(table, f_name)
                       ELSE map_remove(table, hyphenate(f_name))
             self == [d EXCEPT !.toml = Some(Hashed(popped, Hasher(unwrap(d.toml))))]
             r == Call(f, sub_decoder(self, toml, f_name), 0)
         IN  IF ~r.ok THEN Err(r.v, self)
             ELSE IF is_some(r.d.toml)
             THEN Ok(r.v, [self EXCEPT !.toml =
                             Some(Hashed(map_insert(popped, f_name, unwrap(r.d.toml)),
                                         rehash(Hasher(unwrap(d.toml)))))])
             ELSE Ok(r.v, self)

(* mutant: the body is always told that no value is held *)
read_option_absent(d, f) == Call(f, d, FALSE)

(* mutant: the body is always told that a value is held *)
read_option_present(d, f) == Call(f, d, TRUE)

read_option(d, f) == Call(f, d, is_some(d.toml))

(* mutant: every slot is retained *)
retain_all(arr) == arr

retain(arr) == SelectSeq(arr, LAMBDA slot : as_integer(slot) # Some(0))

read_seq(d, f) ==
    IF ~is_tag(d.toml, "Array") THEN Err(mismatch(d, "array", d.toml), d)
    ELSE LET len == Len(Val(unwrap(d.toml)))
             r == Call(f, d, len)
         IN  IF ~r.ok THEN r
             ELSE IF is_tag(r.d.toml, "Array")
             THEN LET arr == retain(Val(unwrap(r.d.toml)))
                  IN  IF Len(arr) # 0
                      THEN Ok(r.v, [r.d EXCEPT !.toml = Some(Array(arr))])
                      ELSE Ok(r.v, take(r.d))
             ELSE r

(* arr.get_mut(idx) aborts the task when idx >= arr.len(), before anything *)
(* is changed.                                                             *)
(* mutant: what the element's decoder left is not written back *)
read_seq_elt_drops(d, idx, f) ==
    IF ~is_tag(d.toml, "Array") THEN Err(mismatch(d, "array", d.toml), d)
    ELSE IF idx >= Len(Val(unwrap(d.toml))) THEN Abort(d)
    ELSE LET arr == Val(unwrap(d.toml))
             toml == arr[idx + 1]
             self == [d EXCEPT !.toml = Some(Array([arr EXCEPT ![idx + 1] = Integer(0)]))]
             r == Call(f, sub_decoder(self, Some(toml), <<>>), 0)
         IN  IF ~r.ok THEN Err(r.v, self) ELSE Ok(r.v, self)

read_seq_elt(d, idx, f) ==
    IF ~is_tag(d.toml, "Array") THEN Err(mismatch(d, "array", d.toml), d)
    ELSE IF idx >= Len(Val(unwrap(d.toml))) THEN Abort(d)
    ELSE LET arr == Val(unwrap(d.toml))
             toml == arr[idx + 1]
             self == [d EXCEPT !.toml = Some(Array([arr EXCEPT ![idx + 1] = Integer(0)]))]
             r == Call(f, sub_decoder(self, Some(toml), <<>>), 0)
         IN  IF ~r.ok THEN Err(r.v, self)
             ELSE IF is_some(r.d.toml)
             THEN Ok(r.v, [self EXCEPT !.toml =
                     Some(Array([Val(unwrap(self.toml)) EXCEPT ![idx + 1] = unwrap(r.d.toml)]))])
             ELSE Ok(r.v, self)

read_tuple(d, f) == read_seq(d, f)
read_tuple_arg(d, a_idx, f) == read_seq_elt(d, a_idx, f)

(* mutant: the table is kept unless it is empty, as read_struct does *)
read_map_keeps(d, f) ==
    IF ~is_tag(d.toml, "Table") THEN Err(mismatch(d, "table", d.toml), d)
    ELSE LET len == map_len(Val(unwrap(d.toml)))
             r == Call(f, d, len)
         IN  IF ~r.ok THEN r
             ELSE IF is_tag(r.d.toml, "Table") /\ map_len(Val(unwrap(r.d.toml))) = 0
             THEN Ok(r.v, take(r.d))
             ELSE r

read_map(d, f) ==
    IF ~is_tag(d.toml, "Table") THEN Err(mismatch(d, "table", d.toml), d)
    ELSE LET len == map_len(Val(unwrap(d.toml)))
             r == Call(f, d, len)
         IN  IF ~r.ok THEN r ELSE Ok(r.v, take(r.d))

read_map_elt_key(d, idx, f) ==
    IF ~is_tag(d.toml, "Table") THEN Err(mismatch(d, "table", d.toml), d)
    ELSE LET keys == map_keys(unwrap(d.toml))
         IN  IF idx < Len(keys)
             THEN LET key == keys[idx + 1]
                      r == Call(f, sub_decoder(d, Some(String(key)), key), 0)
                  IN  [r EXCEPT !.d = d]
             ELSE Err(err(d, ExpectedMapKey(idx)), d)

(* mutant: the values are counted from the other end *)
read_map_elt_val_rev(d, idx, f) ==
    IF ~is_tag(d.toml, "Table") THEN Err(mismatch(d, "table", d.toml), d)
    ELSE LET table == Val(unwrap(d.toml))
             keys == map_keys(unwrap(d.toml))
         IN  IF idx < Len(keys)
             THEN LET r == Call(f, sub_decoder(d, Some(table[keys[Len(keys) - idx]]), <<>>), 0)
                  IN  [r EXCEPT !.d = d]
             ELSE Err(err(d, ExpectedMapElement(idx)), d)

read_map_elt_val(d, idx, f) ==
    IF ~is_tag(d.toml, "Table") THEN Err(mismatch(d, "table", d.toml), d)
    ELSE LET table == Val(unwrap(d.toml))
             keys == map_keys(unwrap(d.toml))
         IN  IF idx < Len(keys)
             THEN LET r == Call(f, sub_decoder(d, Some(table[keys[idx + 1]]), <<>>), 0)
                  IN  [r EXCEPT !.d = d]
             ELSE Err(err(d, ExpectedMapElement(idx)), d)

-----------------------------------------------------------------------------
(* The adapters: Decodable::decode of each type and the closures it passes *)
RECURSIVE struct_body(_, _, _, _)
struct_body(fields, i, d, acc) ==
    IF i > Len(fields) THEN Ok(acc, d)
    ELSE LET r == read_struct_field(d, fields[i][1], FDecode(fields[i][2]))
         IN  IF ~r.ok THEN r
             ELSE struct_body(fields, i + 1, r.d, Append(acc, r.v))

RECURSIVE seq_body(_, _, _, _, _)
seq_body(ty, len, i, d, acc) ==
    IF i >= len THEN Ok(acc, d)
    ELSE LET r == read_seq_elt(d, i, FDecode(ty))
         IN  IF ~r.ok THEN r
             ELSE seq_body(ty, len, i + 1, r.d, Append(acc, r.v))

RECURSIVE map_body(_, _, _, _, _, _)
map_body(kty, vty, len, i, d, acc) ==
    IF i >= len THEN Ok(acc, d)
    ELSE LET k == read_map_elt_key(d, i, FDecode(kty))
         IN  IF ~k.ok THEN k
             ELSE LET v == read_map_elt_val(k.d, i, FDecode(vty))
                  IN  IF ~v.ok THEN v
                      ELSE map_body(kty, vty, len, i + 1, v.d,
                                    map_insert(acc, k.v, v.v))

option_body(ty, d, b) ==
    IF b THEN LET r == Call(FDecode(ty), d, 0)
              IN  IF ~r.ok THEN r ELSE Ok(Some(r.v), r.d)
    ELSE Ok(None, d)

variant_body(tys, d, i) ==
    LET r == read_enum_variant_arg(d, 0, FDecode(tys[i + 1]))
    IN  IF ~r.ok THEN r ELSE Ok(<<i, r.v>>, r.d)

decode(ty, d) ==
    CASE ty[1] = "int" -> read_int(d)
      [] ty[1] = "f64" -> read_f64(d)
      [] ty[1] = "str" -> read_str(d)
      [] ty[1] = "bool" -> read_bool(d)
      [] ty[1] = "char" -> read_char(d)
      [] ty[1] = "nil" -> read_nil(d)
      [] ty[1] = "struct" -> read_struct(d, FStructBody(ty[2]))
      [] ty[1] = "option" -> read_option(d, FOptionBody(ty[2]))
      [] ty[1] = "vec" -> read_seq(d, FSeqBody(ty[2]))
      [] ty[1] = "map" -> read_map(d, FMapBody(ty[2], ty[3]))
      [] ty[1] = "enum" -> read_enum(d, FEnumBody(ty[2]))
      [] ty[1] = "unit" -> Ok(<<>>, d)

Call(f, d, x) ==
    CASE f[1] = "decode" -> decode(f[2], d)
      [] f[1] = "struct_body" -> struct_body(f[2], 1, d, <<>>)
      [] f[1] = "option_body" -> option_body(f[2], d, x)
      [] f[1] = "seq_body" -> seq_body(f[2], x, 0, d, <<>>)
      [] f[1] = "map_body" -> map_body(f[2], f[3], x, 0, d, EmptyMap)
      [] f[1] = "enum_body" -> read_enum_variant(d, f[2], FVariantBody(f[2]))
      [] f[1] = "variant_body" -> variant_body(f[2], d, x)
      [] f[1] = "skip" -> Ok(<<>>, d)
      [] f[1] = "flag" -> Ok(x, d)
      [] f[1] = "seq_first" ->
            IF x > 0 THEN read_seq_elt(d, 0, FDecode(f[2])) ELSE Ok(<<>>, d)

-----------------------------------------------------------------------------
(* Encoder.  A result is [ok, v, e]: v the Error (or "panic" when the task *)
(* fails), e the encoder as the call left it.                              *)
Start == <<"Start">>
NextKey(key) == <<"NextKey", key>>
NextArray(vec) == <<"NextArray", vec>>
NextMapKey == <<"NextMapKey">>

NeedsKey == "NeedsKey"
NoValue == "NoValue"
InvalidMapKeyLocation == "InvalidMapKeyLocation"
InvalidMapKeyType == "InvalidMapKeyType"

EOk(e) == [ok |-> TRUE, v |-> "", e |-> e]
EErr(x, e) == [ok |-> FALSE, v |-> x, e |-> e]
Panic(e) == [ok |-> FALSE, v |-> "panic", e |-> e]

(* Encoder::new *)
Encoder_new == [toml |-> EmptyMap, state |-> Start]

(* mem::replace(&mut self.state, s) *)
replace_state(e, s) == [e EXCEPT !.state = s]

(* emit_value with the key check removed: a non-string key is dropped *)
(* mutant: a value is put in front of the accumulated elements *)
emit_value_prepend(e, v) ==
    LET self == replace_state(e, Start)
    IN  CASE e.state[1] = "NextKey" ->
                EOk([self EXCEPT !.toml = map_insert(e.toml, e.state[2], v)])
          [] e.state[1] = "NextArray" ->
                EOk([self EXCEPT !.state = NextArray(<<v>> \o e.state[2])])
          [] e.state[1] = "NextMapKey" ->
                IF Tag(v) = "String"
                THEN EOk([self EXCEPT !.state = NextKey(Val(v))])
                ELSE EErr(InvalidMapKeyType, self)
          [] e.state[1] = "Start" -> EErr(NeedsKey, self)

emit_value_any_key(e, v) ==
    LET self == replace_state(e, Start)
    IN  CASE e.state[1] = "NextKey" ->
                EOk([self EXCEPT !.toml = map_insert(e.toml, e.state[2], v)])
          [] e.state[1] = "NextArray" ->
                EOk([self EXCEPT !.state = NextArray(Append(e.state[2], v))])
          [] e.state[1] = "NextMapKey" ->
                IF Tag(v) = "String"
                THEN EOk([self EXCEPT !.state = NextKey(Val(v))])
                ELSE EOk(self)
          [] e.state[1] = "Start" -> EErr(NeedsKey, self)

emit_value(e, v) ==
    LET self == replace_state(e, Start)
    IN  CASE e.state[1] = "NextKey" ->
                EOk([self EXCEPT !.toml = map_insert(e.toml, e.state[2], v)])
          [] e.state[1] = "NextArray" ->
                EOk([self EXCEPT !.state = NextArray(Append(e.state[2], v))])
          [] e.state[1] = "NextMapKey" ->
                IF Tag(v) = "String"
                THEN EOk([self EXCEPT !.state = NextKey(Val(v))])
                ELSE EErr(InvalidMapKeyType, self)
          [] e.state[1] = "Start" -> EErr(NeedsKey, self)

emit_nil(e) == EOk(e)
emit_i64(e, v) == emit_value(e, Integer(v))
(* v as i64 *)
emit_int(e, v) == emit_i64(e, v)
emit_bool(e, v) == emit_value(e, Boolean(v))
emit_f64(e, v) == emit_value(e, Float(v))
emit_str(e, v) == emit_value(e, String(v))
(* v.to_str() *)
emit_char(e, v) == emit_str(e, <<v>>)

GEncode(ty, v) == <<"encode", ty, v>>
GStructBody(fields, vals) == <<"struct_body", fields, vals>>
GOptionBody(ty, v) == <<"option_body", ty, v>>
GSeqBody(ty, vals) == <<"seq_body", ty, vals>>
GMapBody(kty, vty, m) == <<"map_body", kty, vty, m>>
GEnumBody(tys, v) == <<"enum_body", tys, v>>
GVariantBody(tys, v) == <<"variant_body", tys, v>>
GSkip == <<"skip">>
(* |e| { let _ = f(e); Ok(()) }: a body that does not propagate f's error *)
GTry(f) == <<"try", f>>

RECURSIVE ECall(_, _)

emit_enum(e, f) == ECall(f, e)
(* mutant: the variant is named in the output before its arguments *)
emit_enum_variant_tagged(e, f) ==
    LET r == emit_str(e, <<"v">>)
    IN  IF ~r.ok THEN r ELSE ECall(f, r.e)

emit_enum_variant(e, f) == ECall(f, e)
emit_enum_variant_arg(e, f) == ECall(f, e)

(* fail!() *)
emit_enum_struct_variant(e, f) == Panic(e)
emit_enum_struct_variant_field(e, f_name, f) == Panic(e)

(* mutant: under a key, the body runs against the encoder itself *)
emit_struct_flat(e, f) ==
    LET self == replace_state(e, Start)
    IN  CASE e.state[1] = "NextKey" ->
                LET r == ECall(f, self)
                IN  IF ~r.ok THEN r
                    ELSE EOk([r.e EXCEPT !.toml =
                                map_insert(r.e.toml, e.state[2], Table(EmptyMap))])
          [] e.state[1] = "NextArray" ->
                LET r == ECall(f, Encoder_new)
                IN  IF ~r.ok THEN [r EXCEPT !.e = self]
                    ELSE EOk([self EXCEPT !.state =
                                NextArray(Append(e.state[2], Table(r.e.toml)))])
          [] e.state[1] = "Start" -> ECall(f, self)
          [] e.state[1] = "NextMapKey" -> EErr(InvalidMapKeyLocation, self)

emit_struct(e, f) ==
    LET self == replace_state(e, Start)
    IN  CASE e.state[1] = "NextKey" ->
                LET r == ECall(f, Encoder_new)
                IN  IF ~r.ok THEN [r EXCEPT !.e = self]
                    ELSE EOk([self EXCEPT !.toml =
                                map_insert(e.toml, e.state[2], Table(r.e.toml))])
          [] e.state[1] = "NextArray" ->
                LET r == ECall(f, Encoder_new)
                IN  IF ~r.ok THEN [r EXCEPT !.e = self]
                    ELSE EOk([self EXCEPT !.state =
                                NextArray(Append(e.state[2], Table(r.e.toml)))])
          [] e.state[1] = "Start" -> ECall(f, self)
          [] e.state[1] = "NextMapKey" -> EErr(InvalidMapKeyLocation, self)

(* mutant: the field's value is not required *)
emit_struct_field_unchecked(e, f_name, f) ==
    LET old == e.state
        r == ECall(f, replace_state(e, NextKey(f_name)))
    IN  IF ~r.ok THEN r ELSE EOk(replace_state(r.e, old))

emit_struct_field(e, f_name, f) ==
    LET old == e.state
        r == ECall(f, replace_state(e, NextKey(f_name)))
    IN  IF ~r.ok THEN r
        ELSE IF r.e.state # Start THEN EErr(NoValue, r.e)
        ELSE EOk(replace_state(r.e, old))

emit_option(e, f) == ECall(f, e)

(* mutant: the awaited key is left in place *)
(* mutant: an absent optional at the top level is let through *)
emit_option_none_root(e) ==
    LET self == replace_state(e, Start)
    IN  CASE e.state[1] = "Start" -> EOk(self)
          [] e.state[1] = "NextKey" -> EOk(self)
          [] e.state[1] = "NextArray" -> Panic(self)
          [] e.state[1] = "NextMapKey" -> EErr(InvalidMapKeyLocation, self)

emit_option_none_keeps(e) ==
    LET self == replace_state(e, Start)
    IN  CASE e.state[1] = "Start" -> Panic(self)
          [] e.state[1] = "NextKey" -> EOk(e)
          [] e.state[1] = "NextArray" -> Panic(self)
          [] e.state[1] = "NextMapKey" -> EErr(InvalidMapKeyLocation, self)

emit_option_none(e) ==
    LET self == replace_state(e, Start)
    IN  CASE e.state[1] = "Start" -> Panic(self)
          [] e.state[1] = "NextKey" -> EOk(self)
          [] e.state[1] = "NextArray" -> Panic(self)
          [] e.state[1] = "NextMapKey" -> EErr(InvalidMapKeyLocation, self)

emit_option_some(e, f) == ECall(f, e)

(* mutant: the Array is routed before the entry context is restored *)
emit_seq_unrestored(e, f) ==
    LET old == e.state
        r == ECall(f, replace_state(e, NextArray(<<>>)))
    IN  IF ~r.ok THEN r
        ELSE IF r.e.state[1] = "NextArray"
        THEN emit_value(r.e, Array(r.e.state[2]))
        ELSE Panic(replace_state(r.e, old))

emit_seq(e, f) ==
    LET old == e.state
        r == ECall(f, replace_state(e, NextArray(<<>>)))
    IN  IF ~r.ok THEN r
        ELSE IF r.e.state[1] = "NextArray"
        THEN emit_value(replace_state(r.e, old), Array(r.e.state[2]))
        ELSE Panic(replace_state(r.e, old))

emit_seq_elt(e, f) == ECall(f, e)
emit_tuple(e, f) == emit_seq(e, f)
emit_tuple_arg(e, f) == emit_seq_elt(e, f)
(* unimplemented!() *)
emit_tuple_struct(e, f) == Panic(e)
emit_tuple_struct_arg(e, f) == Panic(e)

emit_map(e, f) == emit_struct(e, f)

(* mutant: the context of entry is not looked at *)
emit_map_elt_key_anywhere(e, f) ==
    LET self == replace_state(e, NextMapKey)
        r == ECall(f, self)
    IN  IF ~r.ok THEN r
        ELSE IF r.e.state[1] = "NextKey" THEN EOk(r.e)
        ELSE EErr(InvalidMapKeyLocation, r.e)

emit_map_elt_key(e, f) ==
    LET self == replace_state(e, NextMapKey)
    IN  IF e.state[1] # "Start" THEN EErr(InvalidMapKeyLocation, self)
        ELSE LET r == ECall(f, self)
             IN  IF ~r.ok THEN r
                 ELSE IF r.e.state[1] = "NextKey" THEN EOk(r.e)
                 ELSE EErr(InvalidMapKeyLocation, r.e)

emit_map_elt_val(e, f) == ECall(f, e)

(* The adapters: Encodable::encode of each type and the closures it passes *)
RECURSIVE enc_struct_body(_, _, _, _)
enc_struct_body(fields, vals, i, e) ==
    IF i > Len(fields) THEN EOk(e)
    ELSE LET r == emit_struct_field(e, fields[i][1], GEncode(fields[i][2], vals[i]))
         IN  IF ~r.ok THEN r ELSE enc_struct_body(fields, vals, i + 1, r.e)

RECURSIVE enc_seq_body(_, _, _, _)
enc_seq_body(ty, vals, i, e) ==
    IF i > Len(vals) THEN EOk(e)
    ELSE LET r == emit_seq_elt(e, GEncode(ty, vals[i]))
         IN  IF ~r.ok THEN r ELSE enc_seq_body(ty, vals, i + 1, r.e)

(* Encodable for HashMap<K, V>: m is the map as its iterator yields it, a *)
(* sequence of entries <<key, value>>                                      *)
RECURSIVE enc_map_body(_, _, _, _, _)
enc_map_body(kty, vty, m, i, e) ==
    IF i > Len(m) THEN EOk(e)
    ELSE LET k == emit_map_elt_key(e, GEncode(kty, m[i][1]))
         IN  IF ~k.ok THEN k
             ELSE LET v == emit_map_elt_val(k.e, GEncode(vty, m[i][2]))
                  IN  IF ~v.ok THEN v
                      ELSE enc_map_body(kty, vty, m, i + 1, v.e)

encode(ty, v, e) ==
    CASE ty[1] = "int" -> emit_int(e, v)
      [] ty[1] = "f64" -> emit_f64(e, v)
      [] ty[1] = "str" -> emit_str(e, v)
      [] ty[1] = "bool" -> emit_bool(e, v)
      [] ty[1] = "char" -> emit_char(e, v)
      [] ty[1] = "nil" -> emit_nil(e)
      [] ty[1] = "struct" -> emit_struct(e, GStructBody(ty[2], v))
      [] ty[1] = "option" -> emit_option(e, GOptionBody(ty[2], v))
      [] ty[1] = "vec" -> emit_seq(e, GSeqBody(ty[2], v))
      [] ty[1] = "map" -> emit_map(e, GMapBody(ty[2], ty[3], v))
      [] ty[1] = "enum" -> emit_enum(e, GEnumBody(ty[2], v))

ECall(f, e) ==
    CASE f[1] = "encode" -> encode(f[2], f[3], e)
      [] f[1] = "struct_body" -> enc_struct_body(f[2], f[3], 1, e)
      [] f[1] = "option_body" ->
            IF is_none(f[3]) THEN emit_option_none(e)
            ELSE emit_option_some(e, GEncode(f[2], unwrap(f[3])))
      [] f[1] = "seq_body" -> enc_seq_body(f[2], f[3], 1, e)
      [] f[1] = "map_body" -> enc_map_body(f[2], f[3], f[4], 1, e)
      [] f[1] = "enum_body" -> emit_enum_variant(e, GVariantBody(f[2], f[3]))
      [] f[1] = "variant_body" ->
            emit_enum_variant_arg(e, GEncode(f[2][f[3][1] + 1], f[3][2]))
      [] f[1] = "skip" -> EOk(e)
      [] f[1] = "try" ->
            LET r == ECall(f[2], e)
            IN  IF r.v = "panic" THEN r ELSE EOk(r.e)

-----------------------------------------------------------------------------
(* Bounds of the model *)
MaxInt == 1
MaxLen == 2
MaxCalls == 2
(* the insertions one call makes into one table, each of which can move   *)
(* its keys                                                                *)
MaxRehash == 1

Ints == 0..MaxInt
Strs == {<<>>, <<"a">>}
Leaves ==
    {Integer(i) : i \in Ints} \cup {Float(3)} \cup {String(s) : s \in Strs}
        \cup {Boolean(TRUE)}

TablesOver(keys, vals) ==
    UNION {{Table(t) : t \in [S -> vals]} : S \in SUBSET keys}
ArraysOver(vals) ==
    UNION {{Array(a) : a \in [1..n -> vals]} : n \in 0..MaxLen}

tab_a == Table((ka :> Integer(1)))
tab_ab == Table((ka :> Integer(1)) @@ (kb :> Integer(MaxInt)))

InnerTables == TablesOver({ka, kb}, {Integer(1), Float(3)})
Arrays ==
    ArraysOver({Integer(0), Integer(1), Float(3), String(<<"a">>), tab_a, tab_ab})
Mid ==
    Leaves \cup {tab_a, tab_ab, Table(EmptyMap), Array(<<>>),
                 Array(<<Integer(1)>>), Array(<<tab_ab>>)}
RootTables ==
    TablesOver({ka, kb}, Mid) \cup TablesOver({ka_b, kahb}, {Integer(1), tab_ab})

(* The values a Decoder is constructed over *)
Inputs == Leaves \cup InnerTables \cup Arrays \cup RootTables

(* k with any of its hyphens written as an underscore *)
RECURSIVE Underscored(_)
Underscored(k) ==
    IF Len(k) = 0 THEN {<<>>}
    ELSE {<<c>> \o r : c \in (IF Head(k) = "-" THEN {"-", "_"} ELSE {Head(k)}),
                       r \in Underscored(Tail(k))}
(* The names a record field can ask for to be handed the entry of key k: *)
(* k itself and, by the fallback of read_struct_field, the names that     *)
(* hyphenate to k (none when k holds an underscore, which hyphenate never *)
(* leaves)                                                                *)
Unhyphenated(k) == {k} \cup {n \in Underscored(k) : hyphenate(n) = k}

(* The keys a table of keys K can come to hold while it is read: a residue *)
(* is inserted under the name the field was asked for                     *)
KeysToCome(K) == UNION {Unhyphenated(k) : k \in K}

(* The sequences whose i-th member is in S[i] *)
RECURSIVE Seqs(_)
Seqs(S) ==
    IF Len(S) = 0 THEN {<<>>}
    ELSE {<<h>> \o t : h \in Head(S), t \in Seqs(Tail(S))}

(* The names the hasher of the table v has to place: those its order      *)
(* lists and those the table can come to hold                              *)
Placed(v) == {Layout(v)[i] : i \in DOMAIN Layout(v)} \cup KeysToCome(DOMAIN Val(v))

(* Every way the hashers of the tables of v, each on its own, can go on:  *)
(* a table that has an order in force keeps it, a table that has none is  *)
(* laid in any order, and each insertion to come brings any order         *)
RECURSIVE Hashings(_)
Hashings(v) ==
    CASE Tag(v) = "Table" ->
            {Hashed([k \in DOMAIN Val(v) |->
                        e[CHOOSE i \in DOMAIN e : SetToSeq(DOMAIN Val(v))[i] = k]],
                    <<l>> \o h) :
                e \in Seqs([i \in 1..Cardinality(DOMAIN Val(v)) |->
                                Hashings(Val(v)[SetToSeq(DOMAIN Val(v))[i]])]),
                l \in (IF Len(Hasher(v)) = 0 THEN Layouts(Placed(v)) ELSE {Layout(v)}),
                h \in Seqs([i \in 1..MaxRehash |-> Layouts(Placed(v))])}
      [] Tag(v) = "Array" ->
            {Array(a) : a \in Seqs([i \in DOMAIN Val(v) |-> Hashings(Val(v)[i])])}
      [] OTHER -> {v}

(* The decoder d as a call finds it: what the insertions of the call will *)
(* do to the order of the keys of each table is open at every call        *)
Foreseen(d) ==
    IF is_none(d.toml) THEN {d}
    ELSE {[d EXCEPT !.toml = Some(w)] : w \in Hashings(unwrap(d.toml))}

(* The value with nothing said of the hashers of its tables, which is how *)
(* a value is written out                                                  *)
RECURSIVE Unhashed(_)
Unhashed(v) ==
    CASE Tag(v) = "Table" -> Table([k \in DOMAIN Val(v) |-> Unhashed(Val(v)[k])])
      [] Tag(v) = "Array" -> Array([i \in DOMAIN Val(v) |-> Unhashed(Val(v)[i])])
      [] OTHER -> v

(* The slot o holds the value written v *)
Holds(o, v) == is_some(o) /\ Unhashed(unwrap(o)) = v

(* The adapter types the calls are driven with *)
Bar == TStruct(<<<<ka, TInt>>>>)
Scalars == {TInt, TF64, TStr, TBool, TChar, TNil}
FieldLists ==
    {<<>>, <<<<ka, TInt>>>>, <<<<kb, TInt>>>>, <<<<ka, TInt>>, <<kb, TInt>>>>,
     <<<<ka, TF64>>>>, <<<<ka, TStr>>>>, <<<<ka, Bar>>>>,
     <<<<ka, TOption(TInt)>>, <<kb, TOption(TInt)>>>>,
     <<<<ka, TVec(Bar)>>>>, <<<<ka, TMap(TStr, Bar)>>>>,
     <<<<ka_b, TInt>>>>, <<<<ka_b, Bar>>>>}
FieldTys ==
    {TInt, TF64, TStr, Bar, TOption(TInt), TVec(TInt), TEnum(<<TInt, TF64>>)}
OptionTys == {TInt, TF64, Bar, TVec(TStr)}
ElemTys == {TInt, TStr, TF64, Bar}
(* an enum of one variant, which has no arguments *)
Flag == TEnum(<<TUnit>>)
VariantLists ==
    {<<>>, <<TInt>>, <<TInt, TF64>>, <<TF64, TInt>>, <<TStr, TBool>>,
     <<TInt, TInt>>, <<Bar, TStruct(<<<<kb, TInt>>>>)>>, <<TInt, Bar>>,
     <<TStruct(<<>>), Bar>>}
FieldNames == {ka, kb, ka_b}

-----------------------------------------------------------------------------
(* The state machine: a Decoder is constructed over an input and then      *)
(* driven by protocol calls; call records the last call, the decoder it    *)
(* was made on and its result.                                             *)
Idle == Encoder_new

NoCall(d) == [op |-> "none", args |-> <<>>, pre |-> d, res |-> Ok(<<>>, d)]
Made(op, args, d, r) == [op |-> op, args |-> args, pre |-> d, res |-> r]

Paths == {None, Some(kb)}

Init ==
    /\ \E toml \in {None} \cup {Some(w) : w \in UNION {Hashings(v) : v \in Inputs}},
          path \in Paths :
          dec = [toml |-> toml, cur_field |-> path]
    /\ call = NoCall(dec)
    /\ enc = Idle
    /\ subject = None
    /\ calls = 0

(* The decoders a call can find: a call is made when the caller holds no *)
(* unconsumed result, and what the hashers do next is open at each call   *)
Ready == IF call.op = "none" THEN Foreseen(dec) ELSE {}

(* A call made on the decoder d, with the result r. *)
Step(op, args, d, r) ==
    /\ call.op = "none"
    /\ call' = Made(op, args, d, r)
    /\ dec' = r.d
    /\ UNCHANGED <<enc, subject, calls>>

(* The caller consumes the result; the decoder is ready for the next call. *)
Return ==
    /\ call.op # "none"
    /\ ~aborted(call.res)
    /\ call' = NoCall(dec)
    /\ UNCHANGED <<dec, enc, subject, calls>>

ReadNil == \E d \in Ready : Step("read_nil", <<>>, d, read_nil(d))
ReadI64 == \E d \in Ready : Step("read_i64", <<>>, d, read_i64(d))
ReadBool == \E d \in Ready : Step("read_bool", <<>>, d, read_bool(d))
ReadF64 == \E d \in Ready : Step("read_f64", <<>>, d, read_f64(d))
ReadChar == \E d \in Ready : Step("read_char", <<>>, d, read_char(d))
ReadStr == \E d \in Ready : Step("read_str", <<>>, d, read_str(d))

Bodies(fs) == fs \cup {FSkip}

ReadEnumVariant ==
    \E d \in Ready, tys \in VariantLists :
        Step("read_enum_variant", <<tys>>, d,
             read_enum_variant(d, tys, FVariantBody(tys)))

ReadStruct ==
    \E d \in Ready,
       f \in Bodies({FStructBody(fields) : fields \in FieldLists}) :
        Step("read_struct", <<f>>, d, read_struct(d, f))

ReadStructField ==
    \E d \in Ready, name \in FieldNames,
       f \in Bodies({FDecode(ty) : ty \in FieldTys}) :
        Step("read_struct_field", <<name, f>>, d, read_struct_field(d, name, f))

ReadOption ==
    \E d \in Ready, f \in {FOptionBody(ty) : ty \in OptionTys} \cup {FFlag} :
        Step("read_option", <<f>>, d, read_option(d, f))

ReadSeq ==
    \E d \in Ready,
       f \in Bodies({FSeqBody(ty) : ty \in ElemTys \cup {TOption(TInt), Flag}}
                        \cup {FSeqFirst(TInt), FSeqFirst(Bar)}) :
        Step("read_seq", <<f>>, d, read_seq(d, f))

ReadSeqElt ==
    \E d \in Ready, idx \in 0..MaxLen,
       f \in Bodies({FDecode(ty) : ty \in ElemTys \cup {Flag}}) :
        Step("read_seq_elt", <<idx, f>>, d, read_seq_elt(d, idx, f))

ReadMap ==
    \E d \in Ready,
       f \in Bodies({FMapBody(TStr, ty) : ty \in ElemTys} \cup {FMapBody(TInt, TInt)}) :
        Step("read_map", <<f>>, d, read_map(d, f))

ReadMapEltKey ==
    \E d \in Ready, idx \in 0..2, f \in Bodies({FDecode(TStr), FDecode(TInt)}) :
        Step("read_map_elt_key", <<idx, f>>, d, read_map_elt_key(d, idx, f))

ReadMapEltVal ==
    \E d \in Ready, idx \in 0..2,
       f \in Bodies({FDecode(TInt), FDecode(TF64), FDecode(Bar)}) :
        Step("read_map_elt_val", <<idx, f>>, d, read_map_elt_val(d, idx, f))

Next ==
    \/ ReadNil
    \/ ReadI64
    \/ ReadBool
    \/ ReadF64
    \/ ReadChar
    \/ ReadStr
    \/ ReadEnumVariant
    \/ ReadStruct
    \/ ReadStructField
    \/ ReadOption
    \/ ReadSeq
    \/ ReadSeqElt
    \/ ReadMap
    \/ ReadMapEltKey
    \/ ReadMapEltVal
    \/ Return

Spec == Init /\ [][Next]_vars

-----------------------------------------------------------------------------
(* The Encoder driven by protocol calls.  An Encoder is met in each of its *)
(* contexts (a closure is handed the encoder in the context its caller     *)
(* set), with an output table that is empty or already holds an entry.     *)
NoDecoder == [toml |-> None, cur_field |-> None]

EncContexts ==
    {Start, NextKey(ka), NextKey(kb), NextArray(<<>>),
     NextArray(<<Integer(1)>>), NextMapKey}
EncTables == {EmptyMap, (ka :> Integer(1))}

(* Typed values handed to Encodable::encode *)
Typed ==
    {<<TInt, 1>>, <<TF64, 3>>, <<TStr, kb>>, <<TBool, TRUE>>, <<TNil, <<>>>>,
     <<TVec(TInt), <<1, 0>>>>, <<TOption(TInt), None>>,
     <<TOption(TInt), Some(1)>>, <<Bar, <<1>>>>,
     <<TMap(TStr, TInt), <<<<ka, 1>>, <<kb, 0>>>>>>,
     <<TMap(TStr, TInt), <<<<kb, 0>>, <<ka, 1>>>>>>,
     <<TMap(TInt, TInt), <<<<1, 1>>>>>>,
     <<TEnum(<<TInt, TF64>>), <<1, 3>>>>,
     <<TEnum(<<TInt, Bar>>), <<1, <<1>>>>>>}
Encodes == {GEncode(t[1], t[2]) : t \in Typed}

EncInit ==
    /\ \E t \in EncTables, st \in EncContexts : enc = [toml |-> t, state |-> st]
    /\ dec = NoDecoder
    /\ call = [op |-> "none", args |-> <<>>, pre |-> enc, res |-> EOk(enc)]
    /\ subject = None
    /\ calls = 0

EStep(op, args, r) ==
    /\ call.op = "none"
    /\ calls < MaxCalls
    /\ calls' = calls + 1
    /\ call' = [op |-> op, args |-> args, pre |-> enc, res |-> r]
    /\ enc' = r.e
    /\ UNCHANGED <<dec, subject>>

(* The caller consumes the result; a failed task makes no further call. *)
EReturn ==
    /\ call.op # "none"
    /\ call.res.v # "panic"
    /\ call' = [op |-> "none", args |-> <<>>, pre |-> enc, res |-> EOk(enc)]
    /\ UNCHANGED <<dec, enc, subject, calls>>

EmitValue ==
    \E v \in {Integer(0), String(kb), Float(3), Boolean(TRUE), Array(<<Integer(1)>>), tab_a} :
        EStep("emit_value", <<v>>, emit_value(enc, v))

EmitNil == EStep("emit_nil", <<>>, emit_nil(enc))

EmitEnum == \E f \in Encodes \cup {GSkip} : EStep("emit_enum", <<f>>, emit_enum(enc, f))

EmitStruct ==
    \E f \in Encodes \cup {GSkip, GStructBody(Bar[2], <<1>>),
                           GStructBody(<<<<ka, TInt>>, <<kb, TNil>>>>, <<1, <<>>>>),
                           GMapBody(TStr, TInt, <<<<kb, 1>>>>),
                           GMapBody(TInt, TInt, <<<<1, 1>>>>)} :
        EStep("emit_struct", <<f>>, emit_struct(enc, f))

EmitStructField ==
    \E name \in {ka, kb}, f \in Encodes \cup {GSkip} :
        EStep("emit_struct_field", <<name, f>>, emit_struct_field(enc, name, f))

EmitOptionNone == EStep("emit_option_none", <<>>, emit_option_none(enc))

EmitOptionSome ==
    \E f \in Encodes \cup {GSkip} :
        EStep("emit_option_some", <<f>>, emit_option_some(enc, f))

EmitSeq ==
    \E f \in Encodes \cup {GSkip, GSeqBody(TInt, <<1, 0>>), GSeqBody(Bar, <<<<1>>>>),
                           GStructBody(Bar[2], <<1>>),
                           GTry(GStructBody(<<<<ka, TNil>>>>, <<<<>>>>))} :
        EStep("emit_seq", <<f>>, emit_seq(enc, f))

EmitEnumStructVariant ==
    EStep("emit_enum_struct_variant", <<GSkip>>, emit_enum_struct_variant(enc, GSkip))

EmitEnumStructVariantField ==
    EStep("emit_enum_struct_variant_field", <<ka, GSkip>>,
          emit_enum_struct_variant_field(enc, ka, GSkip))

EmitTupleStruct ==
    EStep("emit_tuple_struct", <<GSkip>>, emit_tuple_struct(enc, GSkip))

EmitTupleStructArg ==
    EStep("emit_tuple_struct_arg", <<GSkip>>, emit_tuple_struct_arg(enc, GSkip))

EmitMapEltKey ==
    \E f \in Encodes \cup {GSkip} :
        EStep("emit_map_elt_key", <<f>>, emit_map_elt_key(enc, f))

EmitMapEltVal ==
    \E f \in Encodes \cup {GSkip} :
        EStep("emit_map_elt_val", <<f>>, emit_map_elt_val(enc, f))

EncNext ==
    \/ EmitValue
    \/ EmitNil
    \/ EmitEnum
    \/ EmitStruct
    \/ EmitStructField
    \/ EmitOptionNone
    \/ EmitOptionSome
    \/ EmitSeq
    \/ EmitEnumStructVariant
    \/ EmitEnumStructVariantField
    \/ EmitTupleStruct
    \/ EmitTupleStructArg
    \/ EmitMapEltKey
    \/ EmitMapEltVal
    \/ EReturn

EncSpec == EncInit /\ [][EncNext]_vars

-----------------------------------------------------------------------------
(* Round trip: a typed value is encoded by a fresh Encoder and the table   *)
(* it built is decoded by a fresh Decoder with the same adapter, as the    *)
(* tests do with encode!(v) and decode!(Table(encode!(v))).                *)

(* The values of an adapter type, within the bounds *)
RECURSIVE ValuesOf(_), FieldValues(_)
ValuesOf(ty) ==
    CASE ty[1] = "int" -> Ints
      [] ty[1] = "f64" -> {1, 3}
      [] ty[1] = "str" -> Strs
      [] ty[1] = "bool" -> BOOLEAN
      [] ty[1] = "struct" -> FieldValues(ty[2])
      [] ty[1] = "option" -> {None} \cup {Some(x) : x \in ValuesOf(ty[2])}
      [] ty[1] = "vec" -> UNION {[1..n -> ValuesOf(ty[2])] : n \in 0..MaxLen}
      [] ty[1] = "map" -> UNION {[S -> ValuesOf(ty[3])] : S \in SUBSET {ka, kb}}
      [] ty[1] = "enum" ->
            UNION {{<<i - 1, p>> : p \in ValuesOf(ty[2][i])} : i \in 1..Len(ty[2])}

FieldValues(fields) ==
    IF Len(fields) = 0 THEN {<<>>}
    ELSE {<<h>> \o t : h \in ValuesOf(fields[1][2]), t \in FieldValues(Tail(fields))}

(* The types of the tests (smoke, nested, array, inner_structs_with_options,
   hashmap, parse_enum, table_array) and further types over the same shapes *)
Foo(ty) == TStruct(<<<<ka, ty>>>>)
E == TEnum(<<TInt, TF64, Bar>>)
RtTypes ==
    {Foo(TInt), Foo(TStr), Foo(TBool),
     TStruct(<<<<ka, TInt>>, <<ka_b, Bar>>>>),
     Foo(TVec(TInt)), Foo(TVec(Bar)),
     TStruct(<<<<ka, TOption(Bar)>>, <<kb, TF64>>>>),
     Foo(TMap(TStr, TInt)), TMap(TStr, Bar),
     Foo(E), Foo(TVec(E)),
     Foo(TEnum(<<TInt, TInt>>)), Foo(TEnum(<<Bar, TStruct(<<<<ka, TInt>>, <<kb, TInt>>>>)>>)),
     Foo(TOption(TOption(TInt))), Foo(TMap(TStr, TOption(TInt))),
     Foo(TVec(TOption(TInt))), Foo(TEnum(<<TOption(TInt), TStr>>))}

(* The value v of type ty as it is handed to Encodable::encode: every     *)
(* HashMap in it as its iterator yields its entries, in any order         *)
RECURSIVE Laid(_, _)
Laid(ty, v) ==
    CASE ty[1] = "struct" ->
            Seqs([i \in DOMAIN v |-> Laid(ty[2][i][2], v[i])])
      [] ty[1] = "option" ->
            IF is_none(v) THEN {None}
            ELSE {Some(x) : x \in Laid(ty[2], unwrap(v))}
      [] ty[1] = "vec" -> Seqs([i \in DOMAIN v |-> Laid(ty[2], v[i])])
      [] ty[1] = "map" ->
            UNION {Seqs([i \in DOMAIN keys |->
                            {<<keys[i], x>> : x \in Laid(ty[3], v[keys[i]])}]) :
                        keys \in Layouts(DOMAIN v)}
      [] ty[1] = "enum" -> {<<v[1], x>> : x \in Laid(ty[2][v[1] + 1], v[2])}
      [] OTHER -> {v}

RtInit ==
    /\ \E ty \in RtTypes : \E v \in ValuesOf(ty) : subject = Some(<<ty, v>>)
    /\ dec = NoDecoder
    /\ call = NoCall(dec)
    /\ enc = Idle
    /\ calls = 0

(* encode!(v): let mut e = Encoder::new(); v.encode(&mut e) *)
Encode ==
    /\ call.op = "none"
    /\ \E v \in Laid(unwrap(subject)[1], unwrap(subject)[2]) :
          LET r == encode(unwrap(subject)[1], v, Encoder_new)
          IN  /\ call' = Made("encode", <<unwrap(subject)[1], v>>, dec, r)
              /\ enc' = r.e
    /\ UNCHANGED <<dec, subject, calls>>

(* decode!(Table(e.toml)): let mut d = Decoder::new(..); Decodable::decode(&mut d) *)
Decode ==
    /\ call.op = "encode"
    /\ call.res.ok
    /\ \E toml \in Hashings(Table(enc.toml)) :
          LET d0 == Decoder_new(toml)
              r == Call(FDecode(unwrap(subject)[1]), d0, 0)
          IN  /\ call' = [op |-> "decode", args |-> <<unwrap(subject)[1], toml>>,
                          pre |-> d0, res |-> r]
              /\ dec' = r.d
    /\ UNCHANGED <<enc, subject, calls>>

RtNext ==
    \/ Encode
    \/ Decode

RtSpec == RtInit /\ [][RtNext]_vars

-----------------------------------------------------------------------------
(* Integers of a given width.  Where the width matters an integer of w     *)
(* bits is written as its w/8 bytes, least significant first, in two's     *)
(* complement: the i64 of Integer is eight bytes.                          *)

(* the i64 of the number n *)
I64(n) ==
    [k \in 1..8 |->
        IF k <= 4 THEN (n \div (256 ^ (k - 1))) % 256
        ELSE IF n < 0 THEN 255 ELSE 0]
(* the number an unsigned integer of at most three bytes stands for *)
RECURSIVE unsigned(_)
unsigned(b) == IF Len(b) = 0 THEN 0 ELSE Head(b) + 256 * unsigned(Tail(b))
(* the number a signed integer of at most four bytes stands for *)
signed(b) ==
    LET top == b[Len(b)]
    IN  unsigned(SubSeq(b, 1, Len(b) - 1))
          + (IF top >= 128 THEN top - 256 ELSE top) * (256 ^ (Len(b) - 1))

(* i as u8, i as i16, ...: a cast to a type of n bytes keeps the low bytes *)
as_bytes(i, n) == SubSeq(i, 1, n)
(* Result::map *)
map_result(r, n) == IF r.ok THEN Ok(as_bytes(r.v, n), r.d) ELSE r

read_u64(d) == map_result(read_i64(d), 8)
read_u32(d) == map_result(read_i64(d), 4)
read_u16(d) == map_result(read_i64(d), 2)

(* mutant: a value out of the range of u8 is refused *)
read_u8_checked(d) ==
    LET r == read_i64(d)
    IN  IF r.ok /\ SubSeq(r.v, 2, 8) # <<0, 0, 0, 0, 0, 0, 0>>
        THEN Err(mismatch(d, "integer", d.toml), d)
        ELSE map_result(r, 1)

read_u8(d) == map_result(read_i64(d), 1)
read_i32(d) == map_result(read_i64(d), 4)
read_i16(d) == map_result(read_i64(d), 2)
read_i8(d) == map_result(read_i64(d), 1)

(* v as i64 of a u64: the same eight bytes *)
emit_u64(e, v) == emit_i64(e, as_bytes(v, 8))

(* The integers drawn: the numbers around the limits of each width, and    *)
(* the eight-byte words over a few bytes.                                  *)
Numbers ==
    {0, 1, 127, 128, 200, 255, 256, 300, 32767, 32768, 65535, 65536, 70000,
     2147483647, -1, -128, -129, -200, -32768, -32769, -70000, -2147483647}
EdgeBytes == {0, 1, 128, 255}
Words ==
    {<<a, b, 0, c, e, e, e, g>> :
        a \in EdgeBytes, b \in EdgeBytes, c \in EdgeBytes, e \in {0, 255},
        g \in EdgeBytes}
I64s == {I64(n) : n \in Numbers} \cup Words

IntInit ==
    /\ \E i \in I64s : subject = Some(i) /\ dec = Decoder_new(Integer(i))
    /\ enc \in {[toml |-> EmptyMap, state |-> NextKey(ka)],
                [toml |-> EmptyMap, state |-> NextArray(<<>>)]}
    /\ call = NoCall(dec)
    /\ calls = 0

ReadU64 == \E d \in Ready : Step("read_u64", <<>>, d, read_u64(d))
ReadU32 == \E d \in Ready : Step("read_u32", <<>>, d, read_u32(d))
ReadU16 == \E d \in Ready : Step("read_u16", <<>>, d, read_u16(d))
ReadU8 == \E d \in Ready : Step("read_u8", <<>>, d, read_u8(d))
ReadI32 == \E d \in Ready : Step("read_i32", <<>>, d, read_i32(d))
ReadI16 == \E d \in Ready : Step("read_i16", <<>>, d, read_i16(d))
ReadI8 == \E d \in Ready : Step("read_i8", <<>>, d, read_i8(d))
EmitU64 == EStep("emit_u64", <<unwrap(subject)>>, emit_u64(enc, unwrap(subject)))
IntReturn ==
    /\ call.op # "none"
    /\ call' = NoCall(dec)
    /\ UNCHANGED <<dec, enc, subject, calls>>

IntNext ==
    \/ ReadU64
    \/ ReadU32
    \/ ReadU16
    \/ ReadU8
    \/ ReadI32
    \/ ReadI16
    \/ ReadI8
    \/ ReadI64
    \/ EmitU64
    \/ IntReturn

IntSpec == IntInit /\ [][IntNext]_vars

-----------------------------------------------------------------------------
(* impl fmt::Show for DecodeError                                          *)
(* The message is a TLA+ string.  A TLA+ string literal cannot hold the    *)
(* grave accent (U+0060) that the messages quote names with; Grave is the  *)
(* character that stands for it in the model.                              *)
Grave == "'"

(* the characters of a String written out, as {} formats them *)
RECURSIVE Cat(_)
Cat(s) == IF Len(s) = 0 THEN "" ELSE Head(s) \o Cat(Tail(s))

humanize(s) ==
    IF s = "section" THEN "a section"
    ELSE "a value of type " \o Grave \o s \o Grave

fmt_kind(kind) ==
    CASE kind[1] = "ExpectedField" ->
            IF kind[2] = "table" THEN "expected a section"
            ELSE "expected a value of type " \o Grave \o kind[2] \o Grave
      [] kind[1] = "ExpectedType" ->
            "expected " \o humanize(kind[2]) \o ", but found " \o humanize(kind[3])
      [] kind[1] = "ExpectedMapKey" ->
            "expected at least " \o ToString(kind[2] + 1) \o " keys"
      [] kind[1] = "ExpectedMapElement" ->
            "expected at least " \o ToString(kind[2] + 1) \o " elements"
      [] kind[1] = "NoEnumVariants" -> "expected an enum variant to decode to"
      [] kind[1] = "NilTooLong" -> "expected 0-length string"

(* mutant: the key is never named *)
fmt_no_key(e) == fmt_kind(e.kind)

fmt(e) ==
    IF is_some(e.field)
    THEN fmt_kind(e.kind) \o " for the key " \o Grave \o Cat(unwrap(e.field)) \o Grave
    ELSE fmt_kind(e.kind)

(* The errors rendered: every kind, over the type names the Decoder uses   *)
(* (the expected names of its reads and the names type_str gives), with    *)
(* and without a path.                                                     *)
kbar == <<"b", "a", "r">>
TypeNames == {"integer", "float", "boolean", "string", "bool", "table", "array"}
Kinds ==
    {ExpectedField(t) : t \in TypeNames}
      \cup {ExpectedType(t, u) : t \in TypeNames, u \in TypeNames}
      \cup {ExpectedMapKey(i) : i \in 0..MaxLen}
      \cup {ExpectedMapElement(i) : i \in 0..MaxLen}
      \cup {NoEnumVariants, NilTooLong}
FmtPaths == {None, Some(ka), Some(kbar), Some(kbar \o <<".">> \o ka_b)}

FmtInit ==
    /\ \E k \in Kinds, p \in FmtPaths : subject = Some([field |-> p, kind |-> k])
    /\ dec = NoDecoder
    /\ call = NoCall(dec)
    /\ enc = Idle
    /\ calls = 0

(* e.to_str() *)
Fmt ==
    /\ call.op = "none"
    /\ call' = Made("fmt", <<unwrap(subject)>>, dec, fmt(unwrap(subject)))
    /\ UNCHANGED <<dec, enc, subject, calls>>

FmtNext == Fmt

FmtSpec == FmtInit /\ [][FmtNext]_vars

-----------------------------------------------------------------------------
(* Properties of the Decoder (checked under Spec)                          *)

(* The key written with a hyphen for each underscore, for the names drawn  *)
Hyphenated(name) == IF name = ka_b THEN kahb ELSE name

(* The key of table t that a field called name is decoded from, if any     *)
MatchedKey(t, name) ==
    IF name \in DOMAIN t THEN Some(name)
    ELSE IF Hyphenated(name) \in DOMAIN t THEN Some(Hyphenated(name))
    ELSE None

MatchedKeys(t, fields) ==
    UNION {{k \in DOMAIN t : MatchedKey(t, fields[i][1]) = Some(k)} : i \in 1..Len(fields)}

(* What is left in the sub-decoder of a field after it is decoded as ty    *)
FieldResidue(t, path, name, f) ==
    LET key == MatchedKey(t, name)
        held == IF is_some(key) THEN Some(t[unwrap(key)]) ELSE None
    IN  Call(f, [toml |-> held,
                 cur_field |-> IF is_none(path) THEN Some(name)
                               ELSE Some(unwrap(path) \o <<".">> \o name)], 0)

Restrict(t, keys) == [k \in keys |-> t[k]]
(* the table on entry, left with the entries t *)
AsLeftover(t) ==
    IF DOMAIN t = {} THEN None ELSE Some(Hashed(t, Hasher(unwrap(call.pre.toml))))

PreTable == Val(unwrap(call.pre.toml))

(* C2: after a successful read_struct whose body reads the fields F with   *)
(* read_struct_field, each sub-decode leaving nothing, the decoder holds   *)
(* the table of the entries no field of F matched, or None when there is   *)
(* no such entry.                                                          *)
C2_RecordLeftover ==
    (/\ call.op = "read_struct"
     /\ call.res.ok
     /\ call.args[1][1] = "struct_body"
     /\ \A i \in 1..Len(call.args[1][2]) :
            is_none(FieldResidue(PreTable, call.pre.cur_field,
                                 call.args[1][2][i][1],
                                 FDecode(call.args[1][2][i][2])).d.toml))
    => /\ dec = call.res.d
       /\ dec.toml = AsLeftover(Restrict(PreTable,
                        (DOMAIN PreTable) \ MatchedKeys(PreTable, call.args[1][2])))
       /\ dec.cur_field = call.pre.cur_field

C2_Witness ==
    /\ call.op = "read_struct"
    /\ call.args = <<FStructBody(<<<<ka, TInt>>>>)>>
    /\ Holds(call.pre.toml, tab_ab)
    /\ call.res.ok
    /\ call.res.v = <<1>>
    /\ Holds(dec.toml, Table((kb :> Integer(MaxInt))))

(* The sub-decode that a read_struct_field call on call.pre runs *)
FieldSub ==
    FieldResidue(PreTable, call.pre.cur_field, call.args[1], call.args[2])

PostTable == Val(unwrap(dec.toml))

FieldCallOk == call.op = "read_struct_field" /\ call.res.ok

ResidueKept ==
    /\ dec = call.res.d
    /\ is_tag(dec.toml, "Table")
    /\ is_some(FieldSub.d.toml) =>
          /\ call.args[1] \in DOMAIN PostTable
          /\ PostTable[call.args[1]] = unwrap(FieldSub.d.toml)
    /\ is_none(FieldSub.d.toml) => call.args[1] \notin DOMAIN PostTable

Unchanged(k) ==
    /\ k \in DOMAIN PreTable
    /\ k \in DOMAIN PostTable
    /\ PostTable[k] = PreTable[k]

(* C3 as stated: after a successful read_struct_field(name, body) the      *)
(* parent holds (name, R) when the sub-decoder ends with a residue R, has  *)
(* no entry for name when it ends with nothing, and every other entry of   *)
(* the parent table is unchanged.                                          *)
C3_AsStated ==
    FieldCallOk =>
        /\ ResidueKept
        /\ \A k \in ((DOMAIN PreTable) \cup (DOMAIN PostTable)) \ {call.args[1]} :
              Unchanged(k)

(* C3 amended: as stated, except that when name was matched through the    *)
(* hyphenation fallback the entry under the hyphenated key is removed.     *)
C3_NestedLeftover ==
    FieldCallOk =>
        /\ ResidueKept
        /\ \A k \in ((DOMAIN PreTable) \cup (DOMAIN PostTable)) \ {call.args[1]} :
              IF MatchedKey(PreTable, call.args[1]) = Some(k)
              THEN k \notin DOMAIN PostTable
              ELSE Unchanged(k)

C3_Witness ==
    /\ call.op = "read_struct_field"
    /\ call.args = <<ka, FDecode(Bar)>>
    /\ Holds(call.pre.toml, Table((ka :> tab_ab) @@ (kb :> Integer(0))))
    /\ call.res.ok
    /\ Holds(dec.toml, Table((ka :> Table((kb :> Integer(MaxInt))))
                             @@ (kb :> Integer(0))))

(* The trial of candidate i of a read_enum_variant call on call.pre, run   *)
(* on a copy of the value held on entry                                    *)
Attempt(i) ==
    Call(FVariantBody(call.args[1]),
         [toml |-> call.pre.toml, cur_field |-> call.pre.cur_field], i)

Candidates == 0..(Len(call.args[1]) - 1)

(* C4: read_enum_variant returns the result of the first candidate, in the *)
(* order supplied, whose body succeeds on a copy of the value held on      *)
(* entry, and the decoder then holds what that attempt left; Integer       *)
(* against [int, float] is the first variant.                              *)
C4_TrialOrder ==
    (call.op = "read_enum_variant" /\ \E i \in Candidates : Attempt(i).ok)
    => LET w == CHOOSE i \in Candidates :
                    Attempt(i).ok /\ \A j \in 0..(i - 1) : ~Attempt(j).ok
       IN  /\ call.res.ok
           /\ call.res.v = Attempt(w).v
           /\ call.res.v[1] = w
           /\ dec.toml = Attempt(w).d.toml
           /\ dec.cur_field = call.pre.cur_field
           /\ (call.args[1] = <<TInt, TF64>> /\ is_tag(call.pre.toml, "Integer"))
                 => call.res.v = <<0, Val(unwrap(call.pre.toml))>>

C4_Witness ==
    /\ call.op = "read_enum_variant"
    /\ call.args = <<<<TInt, TInt>>>>
    /\ call.pre.toml = Some(Integer(1))
    /\ call.res.ok
    /\ call.res.v = <<0, 1>>
    /\ dec.toml = None

(* C5: when every candidate fails, read_enum_variant returns the error of  *)
(* candidate 0, or NoEnumVariants when there is no candidate, and the      *)
(* decoder is as it was on entry.                                          *)
C5_TrialFailure ==
    (call.op = "read_enum_variant" /\ \A i \in Candidates : ~Attempt(i).ok)
    => /\ ~call.res.ok
       /\ dec = call.pre
       /\ call.res.d = call.pre
       /\ IF call.args[1] = <<>>
          THEN call.res.v = [field |-> call.pre.cur_field, kind |-> <<"NoEnumVariants">>]
          ELSE call.res.v = Attempt(0).v
       /\ (call.args[1] = <<TStr, TBool>> /\ is_tag(call.pre.toml, "Integer"))
             => call.res.v.kind = <<"ExpectedType", "string", "integer">>

C5_Witness ==
    /\ call.op = "read_enum_variant"
    /\ call.args = <<<<TStr, TBool>>>>
    /\ call.pre.toml = Some(Integer(1))
    /\ ~call.res.ok
    /\ call.res.v.kind = <<"ExpectedType", "string", "integer">>

(* C6: read_struct_field(name, body) on a table without an entry for name  *)
(* but with one for name with "-" for each "_" removes that entry and      *)
(* decodes body from its value; with an entry for name, that entry is      *)
(* used and the hyphenated entry is untouched.                             *)
C6_Hyphenation ==
    (/\ call.op = "read_struct_field"
     /\ call.args[1] = ka_b
     /\ is_tag(call.pre.toml, "Table"))
    => LET from(key) ==
               Call(call.args[2],
                    [toml |-> Some(PreTable[key]),
                     cur_field |-> IF is_none(call.pre.cur_field) THEN Some(ka_b)
                                   ELSE Some(unwrap(call.pre.cur_field)
                                             \o <<".", "a", "_", "b">>)], 0)
       IN  /\ (ka_b \notin DOMAIN PreTable /\ kahb \in DOMAIN PreTable)
                 => /\ call.res.ok = from(kahb).ok
                    /\ call.res.v = from(kahb).v
                    /\ kahb \notin DOMAIN PostTable
           /\ ka_b \in DOMAIN PreTable
                 => /\ call.res.ok = from(ka_b).ok
                    /\ call.res.v = from(ka_b).v
                    /\ kahb \in DOMAIN PreTable
                          => /\ kahb \in DOMAIN PostTable
                             /\ PostTable[kahb] = PreTable[kahb]

C6_Witness ==
    /\ call.op = "read_struct_field"
    /\ call.args = <<ka_b, FDecode(TInt)>>
    /\ Holds(call.pre.toml, Table((kahb :> Integer(1))))
    /\ call.res.ok
    /\ call.res.v = 1
    /\ Holds(dec.toml, Table(EmptyMap))

(* C7: after every successful read_map the decoder holds None, whatever    *)
(* the body read or left, whereas a successful read_struct keeps every     *)
(* entry no field matched.                                                 *)
C7_MapClears ==
    /\ (call.op = "read_map" /\ call.res.ok) => (dec.toml = None /\ call.res.d = dec)
    /\ (call.op = "read_struct" /\ call.res.ok /\ call.args[1][1] = "struct_body")
          => \A k \in (DOMAIN PreTable) \ MatchedKeys(PreTable, call.args[1][2]) :
                 /\ is_tag(dec.toml, "Table")
                 /\ k \in DOMAIN PostTable
                 /\ PostTable[k] = PreTable[k]
    /\ (call.op = "read_struct" /\ call.res.ok /\ call.args[1] = FSkip
            /\ PreTable # EmptyMap)
          => dec.toml = call.pre.toml

C7_Witness ==
    /\ call.op = "read_map"
    /\ call.args = <<FMapBody(TStr, Bar)>>
    /\ Holds(call.pre.toml, Table((ka :> tab_ab)))
    /\ call.res.ok
    /\ call.res.v = (ka :> <<1>>)
    /\ dec.toml = None

ScalarReads ==
    {"read_nil", "read_i64", "read_bool", "read_f64", "read_char", "read_str"}
ExpectedName(op) ==
    CASE op = "read_i64" -> "integer"
      [] op = "read_bool" -> "bool"
      [] op = "read_f64" -> "float"
      [] OTHER -> "string"
OwnVariant(op) ==
    CASE op = "read_i64" -> "Integer"
      [] op = "read_bool" -> "Boolean"
      [] op = "read_f64" -> "Float"
      [] OTHER -> "String"
FoundName(tag) ==
    CASE tag = "String" -> "string"
      [] tag = "Integer" -> "integer"
      [] tag = "Float" -> "float"
      [] tag = "Boolean" -> "boolean"
      [] tag = "Array" -> "array"
      [] tag = "Table" -> "table"

(* C8: a scalar read of kind K fails with ExpectedType(K, name of the      *)
(* variant held) when the decoder holds another variant and with           *)
(* ExpectedField(K) when it holds nothing, never returning a value, and    *)
(* the error carries the decoder's path: the field name, appended to the   *)
(* parent's path, when the read is the body of read_struct_field.          *)
C8_AbsentOrWrongType ==
    /\ (call.op \in ScalarReads /\ is_none(call.pre.toml))
          => /\ ~call.res.ok
             /\ call.res.v = [field |-> call.pre.cur_field,
                              kind |-> <<"ExpectedField", ExpectedName(call.op)>>]
    /\ (call.op \in ScalarReads /\ is_some(call.pre.toml)
            /\ Tag(unwrap(call.pre.toml)) # OwnVariant(call.op))
          => /\ ~call.res.ok
             /\ call.res.v = [field |-> call.pre.cur_field,
                              kind |-> <<"ExpectedType", ExpectedName(call.op),
                                         FoundName(Tag(unwrap(call.pre.toml)))>>]
    /\ (call.op = "read_struct_field" /\ call.args[2] = FDecode(TInt)
            /\ is_tag(call.pre.toml, "Table") /\ call.args[1] # ka_b)
          => LET name == call.args[1]
                 path == IF is_none(call.pre.cur_field) THEN Some(name)
                         ELSE Some(unwrap(call.pre.cur_field) \o <<".">> \o name)
             IN  /\ name \notin DOMAIN PreTable
                       => /\ ~call.res.ok
                          /\ call.res.v = [field |-> path,
                                           kind |-> <<"ExpectedField", "integer">>]
                 /\ (name \in DOMAIN PreTable /\ Tag(PreTable[name]) # "Integer")
                       => /\ ~call.res.ok
                          /\ call.res.v = [field |-> path,
                                           kind |-> <<"ExpectedType", "integer",
                                                      FoundName(Tag(PreTable[name]))>>]

C8_Witness ==
    /\ call.op = "read_struct_field"
    /\ call.args = <<ka, FDecode(TInt)>>
    /\ Holds(call.pre.toml, Table((ka :> Float(3))))
    /\ call.pre.cur_field = Some(kb)
    /\ ~call.res.ok
    /\ call.res.v = [field |-> Some(<<"b", ".", "a">>),
                     kind |-> <<"ExpectedType", "integer", "float">>]

(* ---- C10 ---- *)
NonStringKeys ==
    {GEncode(TInt, 1), GEncode(TF64, 3), GEncode(TBool, TRUE),
     GEncode(TVec(TInt), <<1, 0>>)}
NonStringMaps ==
    {GMapBody(TInt, TInt, <<<<1, 1>>>>), GEncode(TMap(TInt, TInt), <<<<1, 1>>>>)}
KeyRejected ==
    /\ ~call.res.ok
    /\ call.res.v = InvalidMapKeyType
    /\ call.res.e.toml = call.pre.toml

(* C10: when the body of a dynamic-map key emits an integer, a float, a
   boolean or an array, the encode fails with InvalidMapKeyType and the
   output table is the one before the call: emit_map_elt_key with such a
   body, emit_value of such a value where a map key is awaited, and the
   encoding of a whole map with an integer key. *)
C10_InvalidMapKeyType ==
    /\ (call.op = "emit_map_elt_key" /\ call.pre.state = Start
          /\ call.args[1] \in NonStringKeys) => KeyRejected
    /\ (call.op = "emit_value" /\ call.pre.state = NextMapKey
          /\ Tag(call.args[1]) \in {"Integer", "Float", "Boolean", "Array"})
         => KeyRejected
    /\ (call.op = "emit_struct" /\ call.pre.state # NextMapKey
          /\ call.args[1] \in NonStringMaps) => KeyRejected

C10_Witness ==
    /\ call.op = "emit_map_elt_key"
    /\ call.pre.state = Start
    /\ call.pre.toml # EmptyMap
    /\ call.args[1] = GEncode(TVec(TInt), <<1, 0>>)
    /\ call.res.v = InvalidMapKeyType

-----------------------------------------------------------------------------
(* Properties of the error rendering (checked under FmtSpec)               *)

ScalarNames == {"integer", "float", "boolean", "string", "bool"}
Rendered == call.op = "fmt"
Shown == call.args[1]
KeySuffix == " for the key " \o Grave \o Cat(unwrap(Shown.field)) \o Grave
Quoted(t) == Grave \o t \o Grave

(* C9: for scalar type names e and f, ExpectedType(e, f) renders exactly as
   "expected a value of type `e`, but found a value of type `f`" and
   ExpectedField(e) as "expected a value of type `e`", each followed by
   " for the key `p`" when a path p is recorded and by nothing when none
   is; the two messages of the tests type_errors and missing_errors are
   rendered letter for letter. *)
C9_ErrorRendering ==
    Rendered =>
      /\ \A e \in ScalarNames, f \in ScalarNames :
            Shown.kind = ExpectedType(e, f) =>
              /\ is_some(Shown.field) =>
                    call.res = "expected a value of type " \o Quoted(e)
                                 \o ", but found a value of type " \o Quoted(f)
                                 \o KeySuffix
              /\ is_none(Shown.field) =>
                    call.res = "expected a value of type " \o Quoted(e)
                                 \o ", but found a value of type " \o Quoted(f)
      /\ \A e \in ScalarNames :
            Shown.kind = ExpectedField(e) =>
              /\ is_some(Shown.field) =>
                    call.res = "expected a value of type " \o Quoted(e) \o KeySuffix
              /\ is_none(Shown.field) =>
                    call.res = "expected a value of type " \o Quoted(e)
      /\ Shown = [field |-> Some(kbar), kind |-> ExpectedType("integer", "float")]
            => call.res = "expected a value of type 'integer', but found a value of type 'float' for the key 'bar'"
      /\ Shown = [field |-> Some(kbar), kind |-> ExpectedField("integer")]
            => call.res = "expected a value of type 'integer' for the key 'bar'"
      /\ Shown = [field |-> None, kind |-> ExpectedField("integer")]
            => call.res = "expected a value of type 'integer'"

C9_Witness ==
    /\ Rendered
    /\ Shown = [field |-> Some(kbar), kind |-> ExpectedType("integer", "float")]
    /\ call.res = "expected a value of type 'integer', but found a value of type 'float' for the key 'bar'"

-----------------------------------------------------------------------------
(* Properties of the round trip (checked under RtSpec)                     *)

(* What a value written under a key leaves there: the encoding of v as a
   record field, None when nothing is written or the encode fails *)
FieldEncoding(ty, v) ==
    LET r == encode(ty, v, [toml |-> EmptyMap, state |-> NextKey(ka)])
    IN  IF r.ok /\ ka \in DOMAIN r.e.toml THEN Some(r.e.toml[ka]) ELSE None

Decodes(ty, toml) == Call(FDecode(ty), [toml |-> toml, cur_field |-> None], 0).ok

(* v holds an absent optional only directly as a record field (field), and
   each of its tagged-union values is of the first variant that decodes the
   value's encoding *)
RECURSIVE Plain(_, _, _)
Plain(ty, v, field) ==
    CASE ty[1] = "struct" ->
            \A i \in 1..Len(ty[2]) : Plain(ty[2][i][2], v[i], TRUE)
      [] ty[1] = "option" ->
            IF is_none(v) THEN field ELSE Plain(ty[2], unwrap(v), FALSE)
      [] ty[1] = "vec" -> \A i \in 1..Len(v) : Plain(ty[2], v[i], FALSE)
      [] ty[1] = "map" -> \A k \in DOMAIN v : Plain(ty[3], v[k], FALSE)
      [] ty[1] = "enum" ->
            /\ Plain(ty[2][v[1] + 1], v[2], FALSE)
            /\ \A j \in 1..v[1] :
                  ~Decodes(ty[2][j], FieldEncoding(ty[2][v[1] + 1], v[2]))
      [] OTHER -> TRUE

RtType == unwrap(subject)[1]
RtValue == unwrap(subject)[2]
DecodedEqual == call.op = "decode" => call.res.ok /\ call.res.v = RtValue
RoundTrips ==
    /\ call.op = "encode" => call.res.ok
    /\ DecodedEqual

(* C1 as stated: for every value over the supported shapes, decoding the
   table the Encoder built from it returns a value equal to it. *)
C1_AsStated == DecodedEqual

(* C1: for every record or dynamic-map value in which an absent optional
   occurs only directly as the value of a record field and every
   tagged-union value is of the first variant, in declaration order, that
   decodes the value's encoding, the encode succeeds and decoding the table
   it built with the same adapter returns a value equal to v. *)
C1_RoundTrip == Plain(RtType, RtValue, FALSE) => RoundTrips

C1_Witness ==
    /\ call.op = "decode"
    /\ RtType = Foo(E)
    /\ RtValue = <<<<2, <<1>>>>>>
    /\ Plain(RtType, RtValue, FALSE)
    /\ call.res.ok
    /\ call.res.v = RtValue

-----------------------------------------------------------------------------
(* Properties of the Encoder (checked under EncSpec)                       *)

Pre == call.pre
Post == call.res.e
Emitted == call.args[1]
(* table t with the one entry (k, v) put in: every other entry as before *)
PutIn(t, k, v, u) ==
    /\ DOMAIN u = DOMAIN t \cup {k}
    /\ u[k] = v
    /\ \A x \in DOMAIN t \ {k} : u[x] = t[x]

(* C11: emit_value routes the value by the context: in NextKey(k) it is
   inserted under k and the context becomes Start; in NextArray(acc) it is
   appended to acc and the context stays NextArray; in NextMapKey a string
   s makes the context NextKey(s); in Start the call fails with NeedsKey
   and the output table is unchanged. *)
C11_ScalarRouting ==
    call.op = "emit_value" =>
      /\ Pre.state[1] = "NextKey" =>
            /\ call.res.ok
            /\ PutIn(Pre.toml, Pre.state[2], Emitted, Post.toml)
            /\ Post.state = Start
      /\ Pre.state[1] = "NextArray" =>
            /\ call.res.ok
            /\ Post.state = NextArray(Pre.state[2] \o <<Emitted>>)
            /\ Post.toml = Pre.toml
      /\ (Pre.state = NextMapKey /\ Tag(Emitted) = "String") =>
            /\ call.res.ok
            /\ Post.state = NextKey(Val(Emitted))
            /\ Post.toml = Pre.toml
      /\ Pre.state = Start =>
            /\ ~call.res.ok
            /\ call.res.v = NeedsKey
            /\ Post.toml = Pre.toml

C11_Witness ==
    /\ call.op = "emit_value"
    /\ Pre.state = NextArray(<<Integer(1)>>)
    /\ Emitted = Integer(0)
    /\ Post.state = NextArray(<<Integer(1), Integer(0)>>)

(* what the body of the field does, run where emit_struct_field runs it *)
FieldBody == ECall(call.args[2], replace_state(Pre, NextKey(call.args[1])))

(* C12: emit_struct_field fails with NoValue whenever its body returns
   success without the context having returned to Start (as the bodies that
   emit nothing do), and whenever it succeeds the context on return is the
   context on entry. *)
C12_NoValue ==
    call.op = "emit_struct_field" =>
      /\ (FieldBody.ok /\ FieldBody.e.state # Start) =>
            ~call.res.ok /\ call.res.v = NoValue
      /\ call.args[2] \in {GSkip, GEncode(TNil, <<>>)} =>
            ~call.res.ok /\ call.res.v = NoValue
      /\ call.res.ok => Post.state = Pre.state

C12_Witness ==
    /\ call.op = "emit_struct_field"
    /\ call.args[2] = GEncode(TNil, <<>>)
    /\ Pre.state = NextArray(<<Integer(1)>>)
    /\ call.res.v = NoValue

(* C13: emit_option_none in context NextKey(k) succeeds and adds no entry
   to the output table, so that an emit_struct_field whose body encodes an
   absent optional succeeds with the table as it was; in context NextMapKey
   it fails with InvalidMapKeyLocation. *)
C13_OptionNone ==
    /\ (call.op = "emit_option_none" /\ Pre.state[1] = "NextKey") =>
          call.res.ok /\ Post.toml = Pre.toml
    /\ (call.op = "emit_option_none" /\ Pre.state = NextMapKey) =>
          ~call.res.ok /\ call.res.v = InvalidMapKeyLocation
    /\ (call.op = "emit_struct_field"
          /\ call.args[2] = GEncode(TOption(TInt), None)) =>
          call.res.ok /\ Post.toml = Pre.toml

C13_Witness ==
    /\ call.op = "emit_struct_field"
    /\ call.args = <<kb, GEncode(TOption(TInt), None)>>
    /\ Pre.toml = (ka :> Integer(1))
    /\ call.res.ok
    /\ Post.toml = Pre.toml

(* a body that encodes a tagged-union value, and the body that encodes the
   payload of that value alone *)
IsEnumEncode(f) == Len(f) = 3 /\ f[1] = "encode" /\ f[2][1] = "enum"
PayloadAlone(f) == GEncode(f[2][2][f[3][1] + 1], f[3][2])

(* C14: encoding a variant with one payload gives, in every context, the
   result of encoding the payload alone in that context: run in place
   (emit_enum, emit_option_some, emit_map_elt_val) or as a record field,
   the encoder ends with the same table and context and the same outcome,
   so nothing of the variant is added to the output; Baz(1.5) as field a
   of an empty root gives {a: Float(1.5)}. *)
C14_TransparentEnum ==
    /\ (call.op \in {"emit_enum", "emit_option_some", "emit_map_elt_val"}
          /\ IsEnumEncode(call.args[1])) =>
          call.res = ECall(PayloadAlone(call.args[1]), Pre)
    /\ (call.op = "emit_struct_field" /\ IsEnumEncode(call.args[2])) =>
          call.res = emit_struct_field(Pre, call.args[1], PayloadAlone(call.args[2]))
    /\ (call.op = "emit_struct_field" /\ Pre = Encoder_new
          /\ call.args = <<ka, GEncode(TEnum(<<TInt, TF64>>), <<1, 3>>)>>) =>
          call.res.ok /\ Post.toml = (ka :> Float(3))

C14_Witness ==
    /\ call.op = "emit_struct_field"
    /\ Pre = Encoder_new
    /\ call.args = <<ka, GEncode(TEnum(<<TInt, Bar>>), <<1, <<1>>>>)>>
    /\ Post.toml = (ka :> Table((ka :> Integer(1))))

(* The run of the body of the call, where the operation runs it *)
RunsBody ==
    \/ call.op \in {"emit_struct_field", "emit_seq", "emit_enum",
                    "emit_option_some", "emit_map_elt_val"}
    \/ call.op = "emit_struct" /\ Pre.state # NextMapKey
    \/ call.op = "emit_map_elt_key" /\ Pre.state = Start
BodyRun ==
    CASE call.op = "emit_struct_field" -> FieldBody
      [] call.op = "emit_struct" ->
            ECall(call.args[1], IF Pre.state = Start THEN Pre ELSE Encoder_new)
      [] call.op = "emit_seq" ->
            ECall(call.args[1], replace_state(Pre, NextArray(<<>>)))
      [] call.op = "emit_map_elt_key" ->
            ECall(call.args[1], replace_state(Pre, NextMapKey))
      [] OTHER -> ECall(call.args[1], Pre)
(* the task failed in the operation itself, not in the body it ran *)
PanicsItself ==
    /\ call.op # "none"
    /\ call.res.v = "panic"
    /\ ~(RunsBody /\ BodyRun.v = "panic")
Unsupported ==
    {"emit_enum_struct_variant", "emit_enum_struct_variant_field",
     "emit_tuple_struct", "emit_tuple_struct_arg"}
Errors == {NeedsKey, NoValue, InvalidMapKeyLocation, InvalidMapKeyType}

(* C15 as stated: the only operation in which the task fails is
   emit_option_none in context NextArray. *)
C15_AsStated ==
    PanicsItself => call.op = "emit_option_none" /\ Pre.state[1] = "NextArray"

(* C15: a failure is reported as an Error value, except that
   emit_option_none fails the task in context NextArray and in context
   Start, the struct-variant and tuple-struct operations fail the task in
   every context, and emit_seq fails the task when its body returns success
   having left a context other than NextArray. *)
C15_Panics ==
    /\ PanicsItself =>
          \/ call.op = "emit_option_none" /\ Pre.state[1] \in {"NextArray", "Start"}
          \/ call.op \in Unsupported
          \/ call.op = "emit_seq" /\ BodyRun.ok /\ BodyRun.e.state[1] # "NextArray"
    /\ (call.op = "emit_option_none" /\ Pre.state[1] \in {"NextArray", "Start"}) =>
          call.res.v = "panic"
    /\ call.op \in Unsupported => call.res.v = "panic"
    /\ (call.op # "none" /\ ~call.res.ok /\ call.res.v # "panic") =>
          call.res.v \in Errors

C15_Witness ==
    /\ call.op = "emit_option_none"
    /\ Pre.state = Start
    /\ call.res.v = "panic"

-----------------------------------------------------------------------------
(* Properties of the Decoder: sequences and scalars (checked under Spec)   *)

(* The array read_seq was called on, and what the decode of its element i
   leaves in the element's sub-decoder *)
SeqArr == Val(unwrap(call.pre.toml))
EltResidue(i) ==
    Call(FDecode(call.args[1][2]), sub_decoder(call.pre, Some(SeqArr[i]), <<>>), 0).d.toml
RECURSIVE Residues(_)
Residues(i) ==
    IF i > Len(SeqArr) THEN <<>>
    ELSE (IF is_some(EltResidue(i)) THEN <<unwrap(EltResidue(i))>> ELSE <<>>)
            \o Residues(i + 1)
SeqDecoded ==
    /\ call.op = "read_seq"
    /\ call.args[1][1] = "seq_body"
    /\ call.res.ok

(* the residues that are not Integer(0), which read_seq retains *)
Retained == SelectSeq(Residues(1), LAMBDA v : v # Integer(0))

(* C16 as stated: after a successful read_seq whose body decodes every
   index with read_seq_elt, the decoder holds None when every element was
   fully consumed, and otherwise the array of the elements' nonempty
   residues in their original order. *)
C16_AsStated ==
    SeqDecoded =>
      call.res.d.toml =
        IF Residues(1) = <<>> THEN None ELSE Some(Array(Residues(1)))

(* C16: after a successful read_seq whose body decodes every index with
   read_seq_elt, the decoder holds the array of the elements' nonempty
   residues other than Integer(0), in their original order, and None when
   there is none: every element was fully consumed or left Integer(0). *)
C16_SeqLeftover ==
    SeqDecoded =>
      call.res.d.toml =
        IF Retained = <<>> THEN None ELSE Some(Array(Retained))

(* of two elements decoded without being read, the Integer(0) is dropped
   and the other is kept *)
C16_Witness ==
    /\ SeqDecoded
    /\ call.args[1] = FSeqBody(Flag)
    /\ call.pre.toml = Some(Array(<<Integer(0), Integer(MaxInt)>>))
    /\ call.res.d.toml = Some(Array(<<Integer(MaxInt)>>))


ScalarTys == {TInt, TF64, TStr, TBool, TChar, TNil}
(* a record body all of whose fields are scalars, on a table that has no
   entry besides those fields *)
AllScalarFields ==
    /\ call.op = "read_struct"
    /\ call.args[1][1] = "struct_body"
    /\ is_tag(call.pre.toml, "Table")
    /\ \A i \in 1..Len(call.args[1][2]) : call.args[1][2][i][2] \in ScalarTys
    /\ DOMAIN PreTable \subseteq {call.args[1][2][i][1] : i \in 1..Len(call.args[1][2])}

(* C17: after every successful scalar read (nil, integer, boolean, float,
   char, string) the decoder's slot is None, so a record all of whose
   entries were read as scalar fields leaves no leftover. *)
C17_LeafInvariant ==
    /\ (call.op \in ScalarReads /\ call.res.ok) => call.res.d.toml = None
    /\ (AllScalarFields /\ call.res.ok) => call.res.d.toml = None

(* the body of emit_struct run against a fresh encoder *)
Nested == ECall(call.args[1], Encoder_new)

(* C18: emit_struct in NextKey(k) runs the body against a fresh encoder and
   stores its table under k, the context becoming Start; in NextArray(acc)
   it runs the body against a fresh encoder and appends its table to acc,
   the context staying NextArray; in Start it runs the body against the
   encoder itself, so the fields land in the root table; in NextMapKey it
   fails with InvalidMapKeyLocation.  When the body fails its error is
   returned, and the table of the encoder that spawned the fresh one gains
   no entry. *)
C18_RecordByContext ==
    call.op = "emit_struct" =>
      /\ (Pre.state[1] = "NextKey" /\ Nested.ok) =>
            /\ call.res.ok
            /\ PutIn(Pre.toml, Pre.state[2], Table(Nested.e.toml), Post.toml)
            /\ Post.state = Start
      /\ (Pre.state[1] = "NextArray" /\ Nested.ok) =>
            /\ call.res.ok
            /\ Post.state = NextArray(Pre.state[2] \o <<Table(Nested.e.toml)>>)
            /\ Post.toml = Pre.toml
      /\ (Pre.state[1] \in {"NextKey", "NextArray"} /\ ~Nested.ok) =>
            /\ ~call.res.ok
            /\ call.res.v = Nested.v
            /\ Post.toml = Pre.toml
      /\ Pre.state = Start => call.res = ECall(call.args[1], Pre)
      /\ Pre.state = NextMapKey =>
            /\ ~call.res.ok
            /\ call.res.v = InvalidMapKeyLocation
            /\ Post.toml = Pre.toml

C18_Witness ==
    /\ call.op = "emit_struct"
    /\ Pre = [toml |-> (ka :> Integer(1)), state |-> NextKey(kb)]
    /\ call.args[1] = GStructBody(Bar[2], <<1>>)
    /\ Post = [toml |-> (ka :> Integer(1)) @@ (kb :> Table((ka :> Integer(1)))),
               state |-> Start]

(* the body of emit_seq succeeded *)
SeqRan ==
    /\ call.op = "emit_seq"
    /\ BodyRun.ok
(* the body of emit_seq succeeded and left the accumulator in place *)
SeqCollected ==
    /\ SeqRan
    /\ BodyRun.e.state[1] = "NextArray"
(* the accumulator the body of emit_seq left *)
Collected == BodyRun.e.state[2]
(* the body calls emit_struct_field on the encoder it is handed *)
CallsField(f) == f[1] = "struct_body"
FieldsOf(f) == {f[2][i][1] : i \in DOMAIN f[2]}
(* the encoder the Array is routed on: the context of entry restored, the
   table as the body left it *)
Restored == replace_state(BodyRun.e, Pre.state)

(* C19 as stated: when the body of emit_seq succeeds, the values it emitted
   are collected in emission order into one Array, and the Array is routed
   as emit_value routes a value under the context of entry: inserted under
   k in NextKey(k), appended to the outer accumulator in NextArray,
   NeedsKey in Start.  The body's elements reach neither the outer table
   nor the outer accumulator themselves. *)
C19_AsStated ==
    SeqRan =>
      /\ call.res.v # "panic"
      /\ BodyRun.e.toml = Pre.toml
      /\ BodyRun.e.state[1] = "NextArray"
      /\ call.res = emit_value(Pre, Array(Collected))
      /\ Pre.state[1] = "NextKey" =>
            /\ call.res.ok
            /\ PutIn(Pre.toml, Pre.state[2], Array(Collected), Post.toml)
            /\ Post.state = Start
      /\ Pre.state[1] = "NextArray" =>
            /\ call.res.ok
            /\ Post.state = NextArray(Pre.state[2] \o <<Array(Collected)>>)
            /\ Post.toml = Pre.toml
      /\ Pre.state = Start =>
            /\ ~call.res.ok
            /\ call.res.v = NeedsKey
            /\ Post.toml = Pre.toml

(* C19: when the body of emit_seq succeeds having left the NextArray
   context in place, the values it emitted in that context are collected in
   emission order into one Array, and the Array is routed as emit_value
   routes a value under the context of entry: inserted under k in
   NextKey(k), appended to the outer accumulator in NextArray, NeedsKey in
   Start.  The body's elements never reach the outer accumulator
   themselves, and they reach the outer table only through an
   emit_struct_field the body calls on the encoder itself, which puts the
   field's value in that table under the field's name.  When the body
   succeeds having left another context, emit_seq fails the task. *)
C19_SeqRouting ==
    /\ (SeqRan /\ BodyRun.e.state[1] # "NextArray") => call.res.v = "panic"
    /\ SeqCollected =>
          /\ (Emitted[1] = "seq_body" /\ Emitted[2] = TInt) =>
                Collected = [i \in DOMAIN Emitted[3] |-> Integer(Emitted[3][i])]
          /\ ~CallsField(Emitted) => BodyRun.e.toml = Pre.toml
          /\ CallsField(Emitted) =>
                /\ Collected = <<>>
                /\ DOMAIN BodyRun.e.toml = DOMAIN Pre.toml \cup FieldsOf(Emitted)
                /\ \A x \in DOMAIN Pre.toml \ FieldsOf(Emitted) :
                      BodyRun.e.toml[x] = Pre.toml[x]
                /\ \A i \in DOMAIN Emitted[2] :
                      Emitted[2][i][2] = TInt =>
                        BodyRun.e.toml[Emitted[2][i][1]] = Integer(Emitted[3][i])
          /\ call.res = emit_value(Restored, Array(Collected))
          /\ Pre.state[1] = "NextKey" =>
                /\ call.res.ok
                /\ PutIn(BodyRun.e.toml, Pre.state[2], Array(Collected), Post.toml)
                /\ Post.state = Start
          /\ Pre.state[1] = "NextArray" =>
                /\ call.res.ok
                /\ Post.state = NextArray(Pre.state[2] \o <<Array(Collected)>>)
                /\ Post.toml = BodyRun.e.toml
          /\ Pre.state = Start =>
                /\ ~call.res.ok
                /\ call.res.v = NeedsKey
                /\ Post.toml = BodyRun.e.toml

(* a body that emits a field and no element: the field lands in the table
   of the encoder and the empty Array is routed under the awaited key *)
C19_Witness ==
    /\ call.op = "emit_seq"
    /\ Pre = [toml |-> EmptyMap, state |-> NextKey(kb)]
    /\ Emitted = GStructBody(Bar[2], <<1>>)
    /\ Post = [toml |-> (ka :> Integer(1)) @@ (kb :> Array(<<>>)), state |-> Start]

-----------------------------------------------------------------------------
(* Properties of the Decoder: the path of an error (checked under Spec)    *)

(* the path p extended with the name n *)
Dotted(p, n) == IF is_none(p) THEN Some(n) ELSE Some(unwrap(p) \o <<".">> \o n)
(* the decode of the slot x as ty fails *)
Fails(ty, x) == ~Call(FDecode(ty), [toml |-> x, cur_field |-> None], 0).ok
(* the entry a record field named n reads from the table *)
Entry(table, n) ==
    IF is_some(map_pop(table, n)) THEN map_pop(table, n)
    ELSE map_pop(table, hyphenate(n))

(* The path attributed to the error of a failing decode of the slot x as
   ty under the path p: the names of the record fields entered down to the
   read that fails.  keys tells whether the read of a map key extends the
   path with the key. *)
RECURSIVE ErrPath(_, _, _, _), FieldsPath(_, _, _, _, _),
          EltsPath(_, _, _, _, _), EntriesPath(_, _, _, _, _, _)
ErrPath(ty, x, p, keys) ==
    CASE ty[1] = "struct" /\ is_tag(x, "Table") ->
            FieldsPath(ty[2], 1, Val(unwrap(x)), p, keys)
      [] ty[1] = "vec" /\ is_tag(x, "Array") ->
            EltsPath(ty[2], Val(unwrap(x)), 1, p, keys)
      [] ty[1] = "map" /\ is_tag(x, "Table") ->
            EntriesPath(ty[2], ty[3], unwrap(x), 1, p, keys)
      [] ty[1] = "option" /\ is_some(x) -> ErrPath(ty[2], x, p, keys)
      [] ty[1] = "enum" /\ Len(ty[2]) > 0 -> ErrPath(ty[2][1], x, p, keys)
      [] OTHER -> p
FieldsPath(fields, i, table, p, keys) ==
    IF i > Len(fields) THEN p
    ELSE LET n == fields[i][1]
             x == Entry(table, n)
         IN  IF Fails(fields[i][2], x)
             THEN ErrPath(fields[i][2], x, Dotted(p, n), keys)
             ELSE FieldsPath(fields, i + 1, table, p, keys)
EltsPath(ty, arr, i, p, keys) ==
    IF i > Len(arr) THEN p
    ELSE IF Fails(ty, Some(arr[i])) THEN ErrPath(ty, Some(arr[i]), p, keys)
    ELSE EltsPath(ty, arr, i + 1, p, keys)
EntriesPath(kty, vty, table, i, p, keys) ==
    IF i > Len(map_keys(table)) THEN p
    ELSE LET k == map_keys(table)[i]
         IN  IF Fails(kty, Some(String(k)))
             THEN IF keys THEN Dotted(p, k) ELSE p
             ELSE IF Fails(vty, Some(Val(table)[k]))
             THEN ErrPath(vty, Some(Val(table)[k]), p, keys)
             ELSE EntriesPath(kty, vty, table, i + 1, p, keys)

(* The path attributed to the error of the call made *)
PathOf(keys) ==
    LET p == call.pre.cur_field
        x == call.pre.toml
        f == call.args[Len(call.args)]
    IN  CASE call.op = "read_struct" /\ f # FSkip ->
                ErrPath(TStruct(f[2]), x, p, keys)
          [] call.op = "read_struct_field" /\ is_tag(x, "Table") /\ f # FSkip ->
                ErrPath(f[2], Entry(Val(unwrap(x)), call.args[1]),
                        Dotted(p, call.args[1]), keys)
          [] call.op = "read_option" -> ErrPath(TOption(f[2]), x, p, keys)
          [] call.op = "read_seq" /\ f # FSkip -> ErrPath(TVec(f[2]), x, p, keys)
          [] call.op = "read_seq_elt" /\ is_tag(x, "Array") /\ f # FSkip ->
                ErrPath(f[2], Some(Val(unwrap(x))[call.args[1] + 1]), p, keys)
          [] call.op = "read_map" /\ f # FSkip ->
                ErrPath(TMap(f[2], f[3]), x, p, keys)
          [] call.op = "read_map_elt_key" /\ is_tag(x, "Table") /\ f # FSkip
                /\ call.args[1] < Len(map_keys(unwrap(x))) ->
                IF keys THEN Dotted(p, map_keys(unwrap(x))[call.args[1] + 1])
                ELSE p
          [] call.op = "read_map_elt_val" /\ is_tag(x, "Table") /\ f # FSkip
                /\ call.args[1] < Len(map_keys(unwrap(x))) ->
                ErrPath(f[2], Some(Val(unwrap(x))[map_keys(unwrap(x))[call.args[1] + 1]]),
                        p, keys)
          [] call.op = "read_enum_variant" ->
                ErrPath(TEnum(call.args[1]), x, p, keys)
          [] OTHER -> p
(* the call returned an error (an aborted task returns nothing) *)
Raised == call.op # "none" /\ ~call.res.ok /\ ~aborted(call.res)

(* C20 as stated: an error raised inside the record fields n1, ..., nk
   carries the path n1.n2...nk; nothing but a record field extends the
   path, and an error raised at the root carries no path. *)
C20_AsStated == Raised => call.res.v.field = PathOf(FALSE)

(* C20: an error raised inside the record fields n1, ..., nk carries the
   path n1.n2...nk built from the names the adapter asked for; sequence
   elements, enum trials and map values do not extend the path, but the
   read of a map key extends it with the key; an error raised at the root
   outside a map key carries no path. *)
C20_DottedPath == Raised => call.res.v.field = PathOf(TRUE)

C20_Witness ==
    /\ call.op = "read_struct"
    /\ call.args = <<FStructBody(<<<<ka, Bar>>>>)>>
    /\ call.pre.cur_field = Some(kb)
    /\ ~call.res.ok
    /\ call.res.v = [field |-> Some(<<"b", ".", "a", ".", "a">>),
                     kind |-> ExpectedField("integer")]

-----------------------------------------------------------------------------
(* Properties of the error rendering: the table type (checked under FmtSpec) *)

(* how the claim renders a type name *)
Side(t) == IF t = "table" THEN "a section" ELSE "a value of type " \o Quoted(t)
Suffix == IF is_some(Shown.field) THEN KeySuffix ELSE ""

(* C21: the table type name is never rendered as "a value of type `table`":
   ExpectedField("table") renders as "expected a section", and
   ExpectedType with "table" as the expected or the found name renders
   that side as "a section". *)
C21_SectionRendering ==
    Rendered =>
      /\ Shown.kind = ExpectedField("table") =>
            call.res = "expected a section" \o Suffix
      /\ \A e \in TypeNames, f \in TypeNames :
            Shown.kind = ExpectedType(e, f) =>
              call.res = "expected " \o Side(e) \o ", but found " \o Side(f) \o Suffix

-----------------------------------------------------------------------------
(* Properties of the Decoder: the consumed-slot sentinel (checked under Spec) *)

(* read_seq ran a body that reads no element, or the first element only *)
ReadsNone == call.op = "read_seq" /\ call.args[1] = FSkip
ReadsFirst ==
    /\ call.op = "read_seq"
    /\ call.args[1][1] = "seq_first"
    /\ is_tag(call.pre.toml, "Array")
    /\ Len(SeqArr) > 0
    /\ call.res.ok
(* the elements from index i on that are not Integer(0), in order *)
NonZero(arr, i) ==
    SelectSeq(SubSeq(arr, i, Len(arr)), LAMBDA v : v # Integer(0))
AsResidue(arr) == IF arr = <<>> THEN None ELSE Some(Array(arr))

(* C22: an element equal to Integer(0) that the body of read_seq never read
   is removed from the residue as a consumed element is, and an unread
   element of any other value is kept, in its place. *)
C22_Sentinel ==
    /\ (ReadsNone /\ is_tag(call.pre.toml, "Array")) =>
          /\ call.res.ok
          /\ call.res.d.toml = AsResidue(NonZero(SeqArr, 1))
    /\ ReadsFirst =>
          call.res.d.toml =
            AsResidue((IF is_some(EltResidue(1)) /\ EltResidue(1) # Some(Integer(0))
                       THEN <<unwrap(EltResidue(1))>> ELSE <<>>)
                      \o NonZero(SeqArr, 2))

C22_Witness ==
    /\ ReadsFirst
    /\ call.args[1] = FSeqFirst(TInt)
    /\ call.pre.toml = Some(Array(<<Integer(1), Integer(0)>>))
    /\ call.res.d.toml = None

-----------------------------------------------------------------------------
(* Properties of the Decoder: options and maps (checked under Spec)        *)

(* a field of an Option type is read from a table that has neither its name
   nor the hyphenated name *)
AbsentOption ==
    /\ call.op = "read_struct_field"
    /\ call.args[2][1] = "decode"
    /\ call.args[2][2][1] = "option"
    /\ is_tag(call.pre.toml, "Table")
    /\ is_none(MatchedKey(PreTable, call.args[1]))

(* C23: read_option calls its body with true exactly when the decoder holds
   a value and with false exactly when the slot is empty, on the decoder as
   it is (same value, same path); so a field absent from the table decodes
   as None without error and adds nothing to the leftover. *)
C23_ReadOption ==
    /\ (call.op = "read_option" /\ call.args[1] = FFlag) =>
          call.res = Ok(is_some(call.pre.toml), call.pre)
    /\ (call.op = "read_option" /\ call.args[1] # FFlag) =>
          call.res = option_body(call.args[1][2], call.pre, is_some(call.pre.toml))
    /\ (call.op = "read_option" /\ is_none(call.pre.toml)) =>
          /\ call.res.ok
          /\ call.res.d = call.pre
    /\ AbsentOption =>
          /\ call.res.ok
          /\ call.res.v = None
          /\ call.res.d = call.pre

C23_Witness ==
    /\ AbsentOption
    /\ call.args[1] = kb
    /\ Holds(call.pre.toml, tab_a)
    /\ call.res = Ok(None, call.pre)

(* a positional read on a held table; the entry its index names *)
MapRead ==
    /\ call.op \in {"read_map_elt_key", "read_map_elt_val"}
    /\ is_tag(call.pre.toml, "Table")
Index == call.args[1]
InRange == Index < map_len(PreTable)
KeyAt == map_keys(unwrap(call.pre.toml))[Index + 1]

(* C24: on a held table of n entries read_map_elt_key(i, body) and
   read_map_elt_val(i, body) fail with ExpectedMapKey(i) and
   ExpectedMapElement(i) exactly when i >= n; for i < n they run the body
   on a copy of the i-th key, as a String, or of the value of the same
   entry; the held table is left as it was. *)
C24_MapPositional ==
    MapRead =>
      /\ call.res.d = call.pre
      /\ (call.op = "read_map_elt_key" /\ ~InRange) =>
            /\ ~call.res.ok
            /\ call.res.v = [field |-> call.pre.cur_field, kind |-> ExpectedMapKey(Index)]
      /\ (call.op = "read_map_elt_val" /\ ~InRange) =>
            /\ ~call.res.ok
            /\ call.res.v = [field |-> call.pre.cur_field,
                             kind |-> ExpectedMapElement(Index)]
      /\ InRange =>
            \/ call.res.ok
            \/ call.res.v.kind \notin {ExpectedMapKey(Index), ExpectedMapElement(Index)}
      /\ (call.op = "read_map_elt_key" /\ InRange /\ call.args[2] = FDecode(TStr)) =>
            call.res = Ok(KeyAt, call.pre)
      /\ (call.op = "read_map_elt_val" /\ InRange) =>
            LET r == Call(call.args[2],
                          [toml |-> Some(PreTable[KeyAt]), cur_field |-> call.pre.cur_field], 0)
            IN  call.res.ok = r.ok /\ call.res.v = r.v

C24_Witness ==
    /\ MapRead
    /\ call.op = "read_map_elt_val"
    /\ Holds(call.pre.toml, Table((ka :> Integer(0)) @@ (kb :> Integer(1))))
    /\ map_keys(unwrap(call.pre.toml)) = <<kb, ka>>
    /\ call.args = <<0, FDecode(TInt)>>
    /\ call.res.ok
    /\ call.res.v = 1

-----------------------------------------------------------------------------
(* Properties of the Encoder: map keys (checked under EncSpec)             *)

KeyCall == call.op = "emit_map_elt_key"
(* the value a scalar body emits *)
ScalarValue(f) ==
    CASE f[2] = TInt -> Integer(f[3])
      [] f[2] = TF64 -> Float(f[3])
      [] f[2] = TStr -> String(f[3])
      [] f[2] = TBool -> Boolean(f[3])
ScalarBody(f) == f[1] = "encode" /\ f[2] \in {TInt, TF64, TStr, TBool}

(* C25: emit_map_elt_key succeeds only when the context of entry is Start
   and its body leaves the context NextKey(s) for the string s it emitted;
   entered in NextKey, NextArray or NextMapKey, or with a body that emits no
   value, it fails with InvalidMapKeyLocation; the emit_map_elt_val that
   follows binds its value to s. *)
C25_MapKeyLocation ==
    /\ (KeyCall /\ call.res.ok) =>
          /\ Pre.state = Start
          /\ Post.state[1] = "NextKey"
          /\ Post.toml = Pre.toml
    /\ (KeyCall /\ Pre.state = Start /\ Emitted[1] = "encode" /\ Emitted[2] = TStr) =>
          /\ call.res.ok
          /\ Post.state = NextKey(Emitted[3])
    /\ (KeyCall /\ Pre.state # Start) =>
          /\ ~call.res.ok
          /\ call.res.v = InvalidMapKeyLocation
          /\ Post.toml = Pre.toml
    /\ (KeyCall /\ Pre.state = Start /\ Emitted \in {GSkip, GEncode(TNil, <<>>)}) =>
          /\ ~call.res.ok
          /\ call.res.v = InvalidMapKeyLocation
    /\ (call.op = "emit_map_elt_val" /\ Pre.state[1] = "NextKey" /\ ScalarBody(Emitted)) =>
          /\ call.res.ok
          /\ PutIn(Pre.toml, Pre.state[2], ScalarValue(Emitted), Post.toml)
          /\ Post.state = Start

C25_Witness ==
    /\ calls = 2
    /\ call.op = "emit_map_elt_val"
    /\ Pre = [toml |-> EmptyMap, state |-> NextKey(kb)]
    /\ Emitted = GEncode(TInt, 1)
    /\ Post = [toml |-> (kb :> Integer(1)), state |-> Start]

-----------------------------------------------------------------------------
(* Properties of the Decoder: failed reads and leftovers (checked under Spec) *)

(* C26: a scalar read (nil, integer, boolean, float, char, string) that
   returns an error leaves the decoder as it was: the same held value and
   the same path, so the value is there for a later read. *)
C26_FailedReadKeeps ==
    (call.op \in ScalarReads /\ ~call.res.ok) =>
      /\ call.res.d.toml = call.pre.toml
      /\ call.res.d.cur_field = call.pre.cur_field
      /\ dec = call.pre

C26_Witness ==
    /\ call.op = "read_str"
    /\ ~call.res.ok
    /\ call.pre.toml = Some(Integer(1))
    /\ dec = [toml |-> Some(Integer(1)), cur_field |-> Some(kb)]

(* l is v or a residue of v: every key of a table of l is a key of the
   table of v at the same place, every element of an array of l comes from
   an element of the array of v, and a scalar is the scalar of v *)
RECURSIVE SubValue(_, _)
SubValue(l, v) ==
    IF Tag(l) = "Table" /\ Tag(v) = "Table"
    THEN \A k \in DOMAIN Val(l) :
            k \in DOMAIN Val(v) /\ SubValue(Val(l)[k], Val(v)[k])
    ELSE IF Tag(l) = "Array" /\ Tag(v) = "Array"
    THEN \A i \in 1..Len(Val(l)) : \E j \in 1..Len(Val(v)) :
            SubValue(Val(l)[i], Val(v)[j])
    ELSE l = v
WholeReads ==
    ScalarReads \cup {"read_struct", "read_struct_field", "read_seq", "read_map",
                      "read_option", "read_enum_variant"}

(* C27: after a successful decode the leftover is a sub-structure of the
   input: every key of every table of the leftover is a key of the input
   table at the same path and its value is the input value or a residue of
   it, also when a field was matched through the hyphenated name. *)
C27_LeftoverWithinInput ==
    (call.op \in WholeReads /\ call.res.ok /\ is_some(call.res.d.toml)) =>
      /\ is_some(call.pre.toml)
      /\ SubValue(unwrap(call.res.d.toml), unwrap(call.pre.toml))

-----------------------------------------------------------------------------
(* Properties of the integer reads (checked under IntSpec)                 *)

Narrow == {"read_u8", "read_u16", "read_u32", "read_i8", "read_i16", "read_i32"}
Bytes(op) ==
    CASE op \in {"read_u8", "read_i8"} -> 1
      [] op \in {"read_u16", "read_i16"} -> 2
      [] op \in {"read_u32", "read_i32"} -> 4
HeldInteger == is_tag(call.pre.toml, "Integer")
Held == Val(unwrap(call.pre.toml))
(* n modulo 2^w as a signed number of w bits *)
Wrap(n, m) == IF (n % m) >= (m \div 2) THEN (n % m) - m ELSE n % m

(* C28: the reads of 8-, 16- and 32-bit integers, signed or unsigned, do
   not check the range: over any held Integer(i) they succeed and return i
   truncated modulo 2^w in two's complement; emit_u64 of a v >= 2^63
   stores Integer(v - 2^64), the i64 of the same eight bytes. *)
C28_NarrowReads ==
    /\ (call.op \in Narrow /\ HeldInteger) =>
          /\ call.res.ok
          /\ Len(call.res.v) = Bytes(call.op)
          /\ \A k \in 1..Bytes(call.op) : call.res.v[k] = Held[k]
          /\ \A n \in Numbers :
                Held = I64(n) =>
                  /\ call.op = "read_u8" => unsigned(call.res.v) = n % 256
                  /\ call.op = "read_u16" => unsigned(call.res.v) = n % 65536
                  /\ call.op = "read_i8" => signed(call.res.v) = Wrap(n, 256)
                  /\ call.op = "read_i16" => signed(call.res.v) = Wrap(n, 65536)
                  /\ call.op = "read_i32" => signed(call.res.v) = n
    /\ (call.op = "emit_u64" /\ call.pre.state = NextKey(ka)) =>
          /\ call.res.ok
          /\ call.res.e.toml = (ka :> Integer(call.args[1]))
          /\ call.args[1] = [k \in 1..8 |-> 255] =>
                call.res.e.toml = (ka :> Integer(I64(-1)))
          /\ \A n \in Numbers :
                (n < 0 /\ call.args[1] = I64(n)) =>
                    call.res.e.toml = (ka :> Integer(I64(n)))

C28_Witness ==
    /\ call.op = "read_u8"
    /\ call.pre.toml = Some(Integer(I64(300)))
    /\ call.res.ok
    /\ unsigned(call.res.v) = 44

=============================================================================
